---- MODULE Spec2Model ----
(***************************************************************************)
(* DataSage: the session-scoped dataset store (backend/database/mongodb.py, *)
(* backend/services/session_service.py), the natural-language query        *)
(* subsystem (backend/services/sql_service.py) and the routes that expose   *)
(* them (backend/routes/*.py), as a state machine.                          *)
(*                                                                         *)
(* Text is a sequence of one-character strings, so that Python's substring  *)
(* test, lower(), strip() and the regular expressions are computed and not  *)
(* assumed.  Clock values are whole days.  A session id is a pair           *)
(* <<prefix, n>>: <<"sample", n>> stands for the id "sample-n" and          *)
(* <<"uuid", n>> for the n-th uuid4 the process draws.                      *)
(***************************************************************************)
EXTENDS Integers, Sequences, FiniteSets, TLC

VARIABLES
    now,                  \* the wall clock, datetime.now(), in days
    mongoUp,              \* whether calls on the MongoDB collections succeed
    moduleLoaded,         \* whether `import backend.database.mongodb` completed
    fallbackDefined,      \* 'IN_MEMORY_SESSIONS' in globals()
    IN_MEMORY_SESSIONS,   \* the in-process fallback map
    sessions_collection,  \* db.sessions: session id -> document
    datasets_collection,  \* db.datasets: a set of dataset documents
    session_dirs,         \* the directories under SESSION_FOLDER
    pkl_files,            \* session id -> the DataFrame pickled in data.pkl
    csv_files,            \* session id -> the DataFrame written to data.csv
    allocated,            \* the uuid4 values already drawn
    indexes_created,      \* whether the create_index calls at import succeeded
    resp,                 \* the response of the last request
    nl_query,             \* translator harness: the request text
    schema_cols,          \* translator harness: the column names of the table
    groq,                 \* translator harness: how the remote call ends
    sql_text,             \* translator harness: the text the translator returned
    conns,                \* the sqlite3 connections opened: id -> [open, table]
    calls,                \* the POST /api/sql/query calls in flight, per worker thread
    threads,              \* the store requests in flight, per worker thread
    upload_folder,        \* the files under UPLOAD_FOLDER: file name -> content
    twin_documents        \* db.sessions: the documents inserted for a session id
                          \* that already had a document

vars == <<now, mongoUp, moduleLoaded, fallbackDefined, IN_MEMORY_SESSIONS,
          sessions_collection, datasets_collection, session_dirs, pkl_files,
          csv_files, allocated, indexes_created, resp, nl_query, schema_cols, groq, sql_text,
          conns, calls, threads, upload_folder, twin_documents>>

storeVars == <<now, mongoUp, moduleLoaded, fallbackDefined, IN_MEMORY_SESSIONS,
               sessions_collection, datasets_collection, session_dirs, pkl_files,
               csv_files, allocated, indexes_created, resp>>

harnessVars == <<nl_query, schema_cols, groq, sql_text>>

engineVars == <<conns, calls>>

threadVars == <<threads, upload_folder, twin_documents>>

-----------------------------------------------------------------------------
(* Bounds of the model. *)

\* how many uuid4 session ids the process may draw
MaxSessions == 1

\* how many distinct "sample-..." ids clients use
MaxSamples == 1

\* the last day the clock reaches
MaxTime == 16

\* the longest preprocessing_steps list kept in a metadata map
MaxSteps == 2

-----------------------------------------------------------------------------
(* Program constants. *)

\* timedelta(days=7): the lifetime written on every save and renewal
SESSION_TTL_DAYS == 7

\* create_index("expires_at", expireAfterSeconds=7*24*60*60), in days
TTL_INDEX_DAYS == 7

-----------------------------------------------------------------------------
(* Generic helpers: Python dict and list operations. *)

Range(s) == {s[i] : i \in DOMAIN s}

\* d[k] = v on a dict
Put(d, k, v) == [x \in (DOMAIN d) \cup {k} |-> IF x = k THEN v ELSE d[x]]

\* d.update(e)
DictUpdate(d, e) == [x \in (DOMAIN d) \cup (DOMAIN e) |-> IF x \in DOMAIN e THEN e[x] ELSE d[x]]

\* d.get(k, default)
DictGet(d, k, default) == IF k \in DOMAIN d THEN d[k] ELSE default

\* the empty dict
EmptyDict == [x \in {} |-> TRUE]

\* `not metadata`: None and the empty dict are both falsy
Falsy(m) == m.none \/ DOMAIN m.md = {}

\* session_id.startswith('sample-')
IsSample(sid) == sid[1] = "sample"

SessionIds == ({"uuid"} \X (1..MaxSessions)) \cup ({"sample"} \X (1..MaxSamples))

\* os.path.join(SESSION_FOLDER, session_id, name)
SessionPath(sid, name) == <<sid, name>>

-----------------------------------------------------------------------------
(* Datasets.  A DataFrame is [columns, dtypes, rows]; an int64 cell is an  *)
(* integer, a float64 cell the pair <<numerator, denominator>>, an object   *)
(* cell a text.                                                             *)

\* pd.DataFrame(SAMPLE_DATA)
SAMPLE_DATA ==
  [columns |-> <<
      <<"a","g","e">>,
      <<"s","a","l","a","r","y">>,
      <<"e","x","p","e","r","i","e","n","c","e">>,
      <<"e","d","u","c","a","t","i","o","n">>,
      <<"d","e","p","a","r","t","m","e","n","t">>,
      <<"p","e","r","f","o","r","m","a","n","c","e","_","s","c","o","r","e">>,
      <<"a","t","t","e","n","d","a","n","c","e">>,
      <<"p","r","o","j","e","c","t","s","_","c","o","m","p","l","e","t","e","d">>,
      <<"s","a","t","i","s","f","a","c","t","i","o","n","_","l","e","v","e","l">>,
      <<"l","a","s","t","_","e","v","a","l","u","a","t","i","o","n">>
   >>,
   dtypes |-> <<"int64", "int64", "int64", "object", "object", "int64", "int64", "int64", "float64", "float64">>,
   rows |-> <<
      <<28, 72000, 5, <<"M","a","s","t","e","r","s">>, <<"E","n","g","i","n","e","e","r","i","n","g">>, 85, 92, 7, <<42,10>>, <<45,10>>>>,
      <<34, 86000, 10, <<"P","h","D">>, <<"R","e","s","e","a","r","c","h">>, 92, 95, 12, <<47,10>>, <<48,10>>>>,
      <<45, 115000, 18, <<"M","a","s","t","e","r","s">>, <<"M","a","n","a","g","e","m","e","n","t">>, 88, 90, 9, <<40,10>>, <<43,10>>>>,
      <<31, 65000, 7, <<"B","a","c","h","e","l","o","r","s">>, <<"M","a","r","k","e","t","i","n","g">>, 76, 85, 5, <<38,10>>, <<39,10>>>>,
      <<24, 55000, 2, <<"B","a","c","h","e","l","o","r","s">>, <<"S","a","l","e","s">>, 72, 88, 4, <<35,10>>, <<37,10>>>>
   >>]


\* the DataFrames clients upload: an inventory whose second column name needs
\* sanitising and that has no age, salary or department column
Uploads ==
  { [columns |-> <<<<"i","t","e","m">>, <<"u","n","i","t"," ","p","r","i","c","e">>, <<"q","t","y">>>>,
     dtypes |-> <<"object", "int64", "int64">>,
     rows |-> << <<<<"n","u","t">>, 3, 10>>, <<<<"b","o","l","t">>, 5, 4>> >>] }

-----------------------------------------------------------------------------
(* backend/database/mongodb.py.  The operators take the collection and the  *)
(* fallback map they act on and return the new ones, so that a handler can  *)
(* chain several calls; they read the clock and the reachability of MongoDB *)
(* from the state.                                                          *)

\* the document insert_one writes for a new session
NewSessionDoc(metadata) ==
    [metadata |-> metadata, created_at |-> now, updated_at |-> now,
     expires_at |-> now + SESSION_TTL_DAYS]

\* save_session_metadata(session_id, metadata): update_one on an existing
\* document, insert_one otherwise; when the collection raises, the write goes
\* to IN_MEMORY_SESSIONS if that global exists, and is lost otherwise
save_session_metadata(coll, mem, sid, metadata) ==
    IF mongoUp
    THEN [coll |-> IF sid \in DOMAIN coll
                   THEN [coll EXCEPT ![sid] = [@ EXCEPT !.metadata = metadata,
                                                        !.updated_at = now,
                                                        !.expires_at = now + SESSION_TTL_DAYS]]
                   ELSE Put(coll, sid, NewSessionDoc(metadata)),
          mem |-> mem, ok |-> TRUE]
    ELSE IF fallbackDefined
         THEN [coll |-> coll, mem |-> Put(mem, sid, NewSessionDoc(metadata)), ok |-> TRUE]
         ELSE [coll |-> coll, mem |-> mem, ok |-> FALSE]

\* the metadata get_session_metadata makes up for an unknown "sample-" id
SampleStubMetadata ==
    [filename |-> "employee_data.csv", has_data |-> TRUE, is_sample |-> TRUE]

\* the in-memory branch of get_session_metadata (lines 129-134 and 150-154)
MemoryLookup(coll, mem, sid) ==
    IF fallbackDefined /\ sid \in DOMAIN mem
    THEN [coll |-> coll, mem |-> mem, md |-> mem[sid].metadata, none |-> FALSE]
    ELSE [coll |-> coll, mem |-> mem, md |-> EmptyDict, none |-> TRUE]

\* get_session_metadata(session_id): find_one, then the renewal of updated_at
\* and expires_at; expires_at is not compared with the clock anywhere
get_mongo_session_metadata(coll, mem, sid) ==
    LET stub(s) == [coll |-> s.coll, mem |-> s.mem, md |-> SampleStubMetadata, none |-> FALSE]
    IN  IF mongoUp
        THEN IF sid \notin DOMAIN coll
             THEN IF IsSample(sid)
                  THEN stub(save_session_metadata(coll, mem, sid, SampleStubMetadata))
                  ELSE MemoryLookup(coll, mem, sid)
             ELSE [coll |-> [coll EXCEPT ![sid] = [@ EXCEPT !.updated_at = now,
                                                            !.expires_at = now + SESSION_TTL_DAYS]],
                   mem |-> mem, md |-> coll[sid].metadata, none |-> FALSE]
        ELSE MemoryLookup(coll, mem, sid)

\* save_dataset(dataset_info): one document per (filename, session_id); an
\* exception of the collection is swallowed.  The documents' timestamps,
\* paths and sizes are read by nothing in the model and are left out.
save_dataset(dsets, sid, filename, df) ==
    IF mongoUp
    THEN Put(dsets, <<sid, filename>>, [rows |-> Len(df.rows), columns |-> Len(df.columns)])
    ELSE dsets

-----------------------------------------------------------------------------
(* backend/services/session_service.py.  A world is the part of the state a *)
(* service call reads and writes: [coll, mem, dirs, pkl, csv, dsets].  A    *)
(* call returns [w, exc, val]: the new world, the exception it raised       *)
(* ("none" when it returned) and the value it returned.                     *)

World ==
    [coll |-> sessions_collection, mem |-> IN_MEMORY_SESSIONS, dirs |-> session_dirs,
     pkl |-> pkl_files, csv |-> csv_files, dsets |-> datasets_collection]

Commit(w) ==
    /\ sessions_collection' = w.coll
    /\ IN_MEMORY_SESSIONS' = w.mem
    /\ session_dirs' = w.dirs
    /\ pkl_files' = w.pkl
    /\ csv_files' = w.csv
    /\ datasets_collection' = w.dsets

\* the world after a get_session_metadata / save_session_metadata call
WithStore(w, s) == [w EXCEPT !.coll = s.coll, !.mem = s.mem]

\* os.path.exists of a path under SESSION_FOLDER
PathExists(w, path) ==
    \/ path[2] = "data.pkl" /\ path[1] \in DOMAIN w.pkl
    \/ path[2] = "data.csv" /\ path[1] \in DOMAIN w.csv

\* {col: str(dtype) for col, dtype in df.dtypes.items()}: a later column of
\* the same name overwrites an earlier one
DtypesDict(df) ==
    [c \in Range(df.columns) |->
        df.dtypes[CHOOSE i \in DOMAIN df.columns :
                     /\ df.columns[i] = c
                     /\ \A j \in DOMAIN df.columns : df.columns[j] = c => j <= i]]

\* pickle.dump(df) to data.pkl, then df.to_csv to data.csv
WriteSnapshots(w, sid, df) ==
    [w EXCEPT !.dirs = @ \cup {sid}, !.pkl = Put(@, sid, df), !.csv = Put(@, sid, df)]

\* create_session with an initial record that claims a dataset (the variant
\* the property of new sessions is tested against)
create_session_with_data(w, sid) ==
    LET saved(s) ==
            [w |-> WithStore([w EXCEPT !.dirs = @ \cup {sid}], s), exc |-> "none", val |-> sid]
    IN  saved(save_session_metadata(w.coll, w.mem, sid,
                                    [created_at |-> now, expires_at |-> now + SESSION_TTL_DAYS,
                                     has_data |-> TRUE]))

\* create_session(): the initial metadata and its save, whose result is ignored
create_session(w, sid) ==
    LET saved(s) ==
            [w |-> WithStore([w EXCEPT !.dirs = @ \cup {sid}], s), exc |-> "none", val |-> sid]
    IN  saved(save_session_metadata(w.coll, w.mem, sid,
                                    [created_at |-> now, expires_at |-> now + SESSION_TTL_DAYS,
                                     has_data |-> FALSE]))

\* the metadata handle_sample_session writes (lines 156-168 and 189-201)
SampleMetadata(sid) ==
    [filename |-> "employee_data.csv",
     rows |-> Len(SAMPLE_DATA.rows),
     columns |-> Len(SAMPLE_DATA.columns),
     column_names |-> SAMPLE_DATA.columns,
     dtypes |-> DtypesDict(SAMPLE_DATA),
     has_data |-> TRUE,
     file_path |-> SessionPath(sid, "data.pkl"),
     csv_path |-> SessionPath(sid, "data.csv"),
     is_sample |-> TRUE,
     created_at |-> now,
     expires_at |-> now + SESSION_TTL_DAYS]

\* handle_sample_session(session_id): a new directory gets the sample frame
\* and its metadata (the dict returned holds the frame as 'df'); an existing
\* one gets its metadata read, and written if none is stored
handle_sample_session(w, sid) ==
    LET provisioned(w1, metadata) ==
            [w |-> WithStore(w1, save_session_metadata(w1.coll, w1.mem, sid, metadata)),
             exc |-> "none",
             val |-> [id |-> sid, created_at |-> metadata.created_at,
                      expires_at |-> metadata.expires_at, has_data |-> TRUE,
                      df |-> SAMPLE_DATA, metadata |-> metadata]]
        session(s, metadata) ==
            [w |-> WithStore(w, s), exc |-> "none",
             val |-> [id |-> sid,
                      created_at |-> DictGet(metadata, "created_at", now),
                      expires_at |-> DictGet(metadata, "expires_at", now + SESSION_TTL_DAYS),
                      has_data |-> TRUE, metadata |-> metadata]]
        existing(g, fresh) ==
            IF Falsy(g)
            THEN session(save_session_metadata(g.coll, g.mem, sid, fresh), fresh)
            ELSE session(g, g.md)
    IN  IF sid \notin w.dirs
        THEN provisioned(WriteSnapshots(w, sid, SAMPLE_DATA), SampleMetadata(sid))
        ELSE existing(get_mongo_session_metadata(w.coll, w.mem, sid), SampleMetadata(sid))

\* get_session(session_id)
get_session(w, sid) ==
    LET session(g) ==
            IF Falsy(g)
            THEN [w |-> WithStore(w, g), exc |-> "KeyError", val |-> EmptyDict]
            ELSE [w |-> WithStore([w EXCEPT !.dirs = @ \cup {sid}], g), exc |-> "none",
                  val |-> DictUpdate(
                            [id |-> sid,
                             created_at |-> DictGet(g.md, "created_at", now),
                             expires_at |-> DictGet(g.md, "expires_at", now + SESSION_TTL_DAYS),
                             has_data |-> DictGet(g.md, "has_data", FALSE)],
                            g.md)]
    IN  IF IsSample(sid)
        THEN handle_sample_session(w, sid)
        ELSE session(get_mongo_session_metadata(w.coll, w.mem, sid))

\* the updated_metadata dict of add_session_data and update_session_data
FrameMetadata(sid, df) ==
    [rows |-> Len(df.rows),
     columns |-> Len(df.columns),
     column_names |-> df.columns,
     dtypes |-> DtypesDict(df),
     has_data |-> TRUE,
     file_path |-> SessionPath(sid, "data.pkl"),
     csv_path |-> SessionPath(sid, "data.csv")]

\* add_session_data(session_id, df, filename)
add_session_data(w, sid, df, filename) ==
    LET sample(h) == [w |-> h.w, exc |-> "none", val |-> h.val.id]
        saved(w1, s) ==
            [w |-> [WithStore(w1, s) EXCEPT !.dsets = save_dataset(@, sid, filename, df)],
             exc |-> "none", val |-> sid]
        written(w1, metadata) ==
            saved(w1, save_session_metadata(w1.coll, w1.mem, sid, metadata))
        attach(g) ==
            IF Falsy(g)
            THEN [w |-> WithStore(w, g), exc |-> "KeyError", val |-> sid]
            ELSE written(WriteSnapshots(WithStore(w, g), sid, df),
                         DictUpdate(g.md,
                                    DictUpdate([filename |-> filename], FrameMetadata(sid, df))))
    IN  IF IsSample(sid)
        THEN sample(handle_sample_session(w, sid))
        ELSE attach(get_mongo_session_metadata(w.coll, w.mem, sid))

\* [0-9]
DigitChars == {"0", "1", "2", "3", "4", "5", "6", "7", "8", "9"}

\* the backquote character (the lexer of TLA+ does not take it in a string)
BQ == "backquote"

\* the characters of the model in ASCII order
AsciiOrder ==
    << "\t", "\n", " ", "(", ")", "*", ",", ".", "0", "1", "2", "3", "4", "5", "6", "7",
       "8", "9", "<", "=", ">", "A", "B", "C", "D", "E", "F", "G", "H", "I", "J", "K", "L",
       "M", "N", "O", "P", "Q", "R", "S", "T", "U", "V", "W", "X", "Y", "Z", "_", BQ, "a",
       "b", "c", "d", "e", "f", "g", "h", "i", "j", "k", "l", "m", "n", "o", "p", "q", "r",
       "s", "t", "u", "v", "w", "x", "y", "z" >>

Code(c) == CHOOSE i \in DOMAIN AsciiOrder : AsciiOrder[i] = c

\* the value of a text of decimal digits
RECURSIVE ToInt(_)
ToInt(ds) ==
    IF ds = <<>> THEN 0
    ELSE 10 * ToInt(SubSeq(ds, 1, Len(ds) - 1)) + (Code(ds[Len(ds)]) - Code("0"))

IsNumberText(s) == s # <<>> /\ \A i \in DOMAIN s : s[i] \in DigitChars

\* the content of a data.pkl that pickle.load rejects (a truncated or
\* overwritten file)
Damaged == [columns |-> <<>>, dtypes |-> <<>>, rows |-> <<>>, damaged |-> TRUE]

\* pickle.load(f) returns the frame that was dumped
Loadable(file) == "damaged" \notin DOMAIN file

\* pd.read_csv of the file df.to_csv(index=False) wrote: the names and the
\* cells come back and the type of every column is inferred from its cells
\* again, so an object column of digit texts comes back as int64
read_csv(file) ==
    LET numeric(j) == /\ file.dtypes[j] = "object"
                      /\ file.rows # <<>>
                      /\ \A r \in DOMAIN file.rows : IsNumberText(file.rows[r][j])
    IN  [columns |-> file.columns,
         dtypes |-> [j \in DOMAIN file.dtypes |->
                       IF file.rows = <<>> THEN "object"
                       ELSE IF numeric(j) THEN "int64" ELSE file.dtypes[j]],
         rows |-> [r \in DOMAIN file.rows |->
                     [j \in DOMAIN file.columns |->
                         IF numeric(j) THEN ToInt(file.rows[r][j]) ELSE file.rows[r][j]]]]

\* get_session_data(session_id)
get_session_data(w, sid) ==
    LET sample(h) ==
            IF "df" \in DOMAIN h.val
            THEN [w |-> h.w, exc |-> "none", val |-> h.val.df]
            ELSE [w |-> [h.w EXCEPT !.dirs = @ \cup {sid}, !.pkl = Put(@, sid, SAMPLE_DATA)],
                  exc |-> "none", val |-> SAMPLE_DATA]
        read(w1, df_path) ==
            IF ~PathExists(w1, df_path)
            THEN [w |-> w1, exc |-> "ValueError", val |-> <<>>]
            ELSE IF Loadable(w1.pkl[df_path[1]])
            THEN [w |-> w1, exc |-> "none", val |-> w1.pkl[df_path[1]]]
            ELSE IF PathExists(w1, SessionPath(sid, "data.csv"))
            THEN [w |-> w1, exc |-> "none", val |-> read_csv(w1.csv[sid])]
            ELSE [w |-> w1, exc |-> "ValueError", val |-> <<>>]
        locate(w1, file_path) ==
            read(w1, IF file_path = <<>> \/ ~PathExists(w1, file_path)
                     THEN SessionPath(sid, "data.pkl")
                     ELSE file_path)
        load(g) ==
            IF Falsy(g)
            THEN [w |-> WithStore(w, g), exc |-> "KeyError", val |-> <<>>]
            ELSE IF ~DictGet(g.md, "has_data", FALSE)
            THEN [w |-> WithStore(w, g), exc |-> "ValueError", val |-> <<>>]
            ELSE locate(WithStore(w, g), DictGet(g.md, "file_path", <<>>))
    IN  IF IsSample(sid)
        THEN IF sid \notin DOMAIN w.pkl
             THEN sample(handle_sample_session(w, sid))
             ELSE [w |-> w, exc |-> "none",
                   val |-> IF Loadable(w.pkl[sid]) THEN w.pkl[sid] ELSE SAMPLE_DATA]
        ELSE load(get_mongo_session_metadata(w.coll, w.mem, sid))

\* get_session_metadata(session_id) of the service
get_session_metadata(w, sid) ==
    LET metadata(g) ==
            IF Falsy(g)
            THEN [w |-> WithStore(w, g), exc |-> "ValueError", val |-> EmptyDict]
            ELSE [w |-> WithStore(w, g), exc |-> "none", val |-> g.md]
    IN  metadata(get_mongo_session_metadata(w.coll, w.mem, sid))

\* update_session_data(session_id, df)
update_session_data(w, sid, df) ==
    LET written(w1, metadata) ==
            [w |-> WithStore(w1, save_session_metadata(w1.coll, w1.mem, sid, metadata)),
             exc |-> "none", val |-> sid]
        update(g) ==
            IF Falsy(g)
            THEN [w |-> WithStore(w, g), exc |-> "ValueError", val |-> sid]
            ELSE written(WriteSnapshots(WithStore(w, g), sid, df),
                         DictUpdate(g.md,
                                    DictUpdate(FrameMetadata(sid, df), [updated_at |-> now])))
    IN  update(get_mongo_session_metadata(w.coll, w.mem, sid))

\* update_session_metadata(session_id, new_metadata)
update_session_metadata(w, sid, new_metadata) ==
    LET update(g) ==
            IF Falsy(g)
            THEN [w |-> WithStore(w, g), exc |-> "ValueError", val |-> sid]
            ELSE [w |-> WithStore(w, save_session_metadata(
                                       g.coll, g.mem, sid,
                                       DictUpdate(DictUpdate(g.md, new_metadata),
                                                  [updated_at |-> now]))),
                  exc |-> "none", val |-> sid]
    IN  update(get_mongo_session_metadata(w.coll, w.mem, sid))

\* delete_session(session_id): shutil.rmtree of the session directory; the
\* MongoDB document is left to the TTL index
delete_session(w, sid) ==
    [w |-> [w EXCEPT !.dirs = @ \ {sid},
                     !.pkl = [x \in (DOMAIN @) \ {sid} |-> @[x]],
                     !.csv = [x \in (DOMAIN @) \ {sid} |-> @[x]]],
     exc |-> "none", val |-> TRUE]

\* delete_dataset(session_id) with a session id: delete_one removes one of
\* the documents of that session; an exception of the collection is swallowed
delete_dataset(dsets, key) ==
    IF mongoUp /\ key \in DOMAIN dsets
    THEN [x \in (DOMAIN dsets) \ {key} |-> dsets[x]]
    ELSE dsets

-----------------------------------------------------------------------------
(* Text: Python's str operations on sequences of characters. *)

Min(S) == CHOOSE x \in S : \A y \in S : x <= y

Max(S) == CHOOSE x \in S : \A y \in S : y <= x

\* str.lower() on the ASCII letters
LowerOf ==
    [A |-> "a", B |-> "b", C |-> "c", D |-> "d", E |-> "e", F |-> "f", G |-> "g", H |-> "h", I |-> "i",
     J |-> "j", K |-> "k", L |-> "l", M |-> "m", N |-> "n", O |-> "o", P |-> "p", Q |-> "q", R |-> "r",
     S |-> "s", T |-> "t", U |-> "u", V |-> "v", W |-> "w", X |-> "x", Y |-> "y", Z |-> "z"]

LowerChar(c) == IF c \in DOMAIN LowerOf THEN LowerOf[c] ELSE c

\* s.lower()
LowerText(s) == [i \in DOMAIN s |-> LowerChar(s[i])]

\* \w of the re module: letters, digits and the underscore
WordChars == (DOMAIN LowerOf) \cup {LowerOf[c] : c \in DOMAIN LowerOf} \cup DigitChars \cup {"_"}

\* \s of the re module and the characters str.strip() removes
SpaceChars == {" ", "\n", "\t"}

\* s.strip()
Strip(s) ==
    LET keep == {i \in DOMAIN s : s[i] \notin SpaceChars}
    IN  IF keep = {} THEN <<>> ELSE SubSeq(s, Min(keep), Max(keep))

\* needle in hay
Contains(hay, needle) ==
    \E i \in 0..(Len(hay) - Len(needle)) : SubSeq(hay, i + 1, i + Len(needle)) = needle

\* s.startswith(p)
StartsWith(s, p) == Len(p) <= Len(s) /\ SubSeq(s, 1, Len(p)) = p

\* s.endswith(p)
EndsWith(s, p) == Len(p) <= Len(s) /\ SubSeq(s, Len(s) - Len(p) + 1, Len(s)) = p

\* the longest run of characters of `class` that starts at position i
RunFrom(s, i, class) ==
    LET stop == {j \in i..Len(s) : s[j] \notin class}
    IN  SubSeq(s, i, IF stop = {} THEN Len(s) ELSE Min(stop) - 1)

\* re.findall(r'\d+', s): whether it is non-empty, and its first element
HasDigits(s) == \E i \in DOMAIN s : s[i] \in DigitChars

FirstNumber(s) == RunFrom(s, Min({i \in DOMAIN s : s[i] \in DigitChars}), DigitChars)

\* re.sub(r'[^\w]', '_', col)
Sanitize(col) == [i \in DOMAIN col |-> IF col[i] \in WordChars THEN col[i] ELSE "_"]

\* the string literals of sql_service.py

Lit ==
    [ kw_average |-> <<"a","v","e","r","a","g","e">>,
      kw_avg |-> <<"a","v","g">>,
      kw_mean |-> <<"m","e","a","n">>,
      kw_sum |-> <<"s","u","m">>,
      kw_total |-> <<"t","o","t","a","l">>,
      kw_count |-> <<"c","o","u","n","t">>,
      kw_group_by |-> <<"g","r","o","u","p"," ","b","y">>,
      kw_grouped_by |-> <<"g","r","o","u","p","e","d"," ","b","y">>,
      kw_maximum |-> <<"m","a","x","i","m","u","m">>,
      kw_max |-> <<"m","a","x">>,
      kw_minimum |-> <<"m","i","n","i","m","u","m">>,
      kw_min |-> <<"m","i","n">>,
      kw_where |-> <<"w","h","e","r","e">>,
      kw_greater_than |-> <<"g","r","e","a","t","e","r"," ","t","h","a","n">>,
      kw_gt |-> <<">">>,
      kw_less_than |-> <<"l","e","s","s"," ","t","h","a","n">>,
      kw_lt |-> <<"<">>,
      kw_equal |-> <<"e","q","u","a","l">>,
      kw_eq |-> <<"=">>,
      kw_age |-> <<"a","g","e">>,
      kw_average_age |-> <<"a","v","e","r","a","g","e"," ","a","g","e">>,
      kw_mean_age |-> <<"m","e","a","n"," ","a","g","e">>,
      kw_total_age |-> <<"t","o","t","a","l"," ","a","g","e">>,
      kw_sum_of_age |-> <<"s","u","m"," ","o","f"," ","a","g","e">>,
      kw_maximum_age |-> <<"m","a","x","i","m","u","m"," ","a","g","e">>,
      kw_oldest |-> <<"o","l","d","e","s","t">>,
      kw_minimum_age |-> <<"m","i","n","i","m","u","m"," ","a","g","e">>,
      kw_youngest |-> <<"y","o","u","n","g","e","s","t">>,
      kw_salary |-> <<"s","a","l","a","r","y">>,
      kw_average_salary |-> <<"a","v","e","r","a","g","e"," ","s","a","l","a","r","y">>,
      kw_mean_salary |-> <<"m","e","a","n"," ","s","a","l","a","r","y">>,
      kw_total_salary |-> <<"t","o","t","a","l"," ","s","a","l","a","r","y">>,
      kw_sum_of_salary |-> <<"s","u","m"," ","o","f"," ","s","a","l","a","r","y">>,
      kw_maximum_salary |-> <<"m","a","x","i","m","u","m"," ","s","a","l","a","r","y">>,
      kw_highest_salary |-> <<"h","i","g","h","e","s","t"," ","s","a","l","a","r","y">>,
      kw_minimum_salary |-> <<"m","i","n","i","m","u","m"," ","s","a","l","a","r","y">>,
      kw_lowest_salary |-> <<"l","o","w","e","s","t"," ","s","a","l","a","r","y">>,
      kw_salary_by_department |-> <<"s","a","l","a","r","y"," ","b","y"," ","d","e","p","a","r","t","m","e","n","t">>,
      kw_salary_per_department |-> <<"s","a","l","a","r","y"," ","p","e","r"," ","d","e","p","a","r","t","m","e","n","t">>,
      select_avg |-> <<"S","E","L","E","C","T"," ","A","V","G","(">>,
      as_average |-> <<")"," ","a","s"," ","a","v","e","r","a","g","e","_">>,
      from_ |-> <<" ","F","R","O","M"," ">>,
      select_star_from |-> <<"S","E","L","E","C","T"," ","*"," ","F","R","O","M"," ">>,
      limit_10 |-> <<" ","L","I","M","I","T"," ","1","0">>,
      select_sum |-> <<"S","E","L","E","C","T"," ","S","U","M","(">>,
      as_sum |-> <<")"," ","a","s"," ","s","u","m","_">>,
      select_ |-> <<"S","E","L","E","C","T"," ">>,
      count_star_from |-> <<","," ","C","O","U","N","T","(","*",")"," ","a","s"," ","c","o","u","n","t"," ","F","R","O","M"," ">>,
      group_by |-> <<" ","G","R","O","U","P"," ","B","Y"," ">>,
      select_count_from |-> <<"S","E","L","E","C","T"," ","C","O","U","N","T","(","*",")"," ","a","s"," ","c","o","u","n","t"," ","F","R","O","M"," ">>,
      select_max |-> <<"S","E","L","E","C","T"," ","M","A","X","(">>,
      as_max |-> <<")"," ","a","s"," ","m","a","x","_">>,
      select_min |-> <<"S","E","L","E","C","T"," ","M","I","N","(">>,
      as_min |-> <<")"," ","a","s"," ","m","i","n","_">>,
      comma_avg |-> <<","," ","A","V","G","(">>,
      as_avg |-> <<")"," ","a","s"," ","a","v","g","_">>,
      where_ |-> <<" ","W","H","E","R","E"," ">>,
      gt_ |-> <<" ",">"," ">>,
      lt_ |-> <<" ","<"," ">>,
      eq_ |-> <<" ","="," ">>,
      is_not_null |-> <<" ","I","S"," ","N","O","T"," ","N","U","L","L">>,
      zero |-> <<"0">>,
      avg_age |-> <<"S","E","L","E","C","T"," ","A","V","G","(","a","g","e",")"," ","a","s"," ","a","v","e","r","a","g","e","_","a","g","e"," ","F","R","O","M"," ">>,
      sum_age |-> <<"S","E","L","E","C","T"," ","S","U","M","(","a","g","e",")"," ","a","s"," ","t","o","t","a","l","_","a","g","e"," ","F","R","O","M"," ">>,
      max_age |-> <<"S","E","L","E","C","T"," ","M","A","X","(","a","g","e",")"," ","a","s"," ","m","a","x","_","a","g","e"," ","F","R","O","M"," ">>,
      min_age |-> <<"S","E","L","E","C","T"," ","M","I","N","(","a","g","e",")"," ","a","s"," ","m","i","n","_","a","g","e"," ","F","R","O","M"," ">>,
      avg_salary |-> <<"S","E","L","E","C","T"," ","A","V","G","(","s","a","l","a","r","y",")"," ","a","s"," ","a","v","e","r","a","g","e","_","s","a","l","a","r","y"," ","F","R","O","M"," ">>,
      sum_salary |-> <<"S","E","L","E","C","T"," ","S","U","M","(","s","a","l","a","r","y",")"," ","a","s"," ","t","o","t","a","l","_","s","a","l","a","r","y"," ","F","R","O","M"," ">>,
      max_salary |-> <<"S","E","L","E","C","T"," ","M","A","X","(","s","a","l","a","r","y",")"," ","a","s"," ","m","a","x","_","s","a","l","a","r","y"," ","F","R","O","M"," ">>,
      min_salary |-> <<"S","E","L","E","C","T"," ","M","I","N","(","s","a","l","a","r","y",")"," ","a","s"," ","m","i","n","_","s","a","l","a","r","y"," ","F","R","O","M"," ">>,
      dept_salary |-> <<"S","E","L","E","C","T"," ","d","e","p","a","r","t","m","e","n","t",","," ","A","V","G","(","s","a","l","a","r","y",")"," ","a","s"," ","a","v","g","_","s","a","l","a","r","y"," ","F","R","O","M"," ">>,
      dept_order |-> <<" ","G","R","O","U","P"," ","B","Y"," ","d","e","p","a","r","t","m","e","n","t"," ","O","R","D","E","R"," ","B","Y"," ","a","v","g","_","s","a","l","a","r","y"," ","D","E","S","C">> ]

\* SQLAssistant.table_name
table_name == <<"u","s","e","r","_","d","a","t","a">>

\* the value None where a text is expected
NoneText == <<"None">>

-----------------------------------------------------------------------------
(* backend/services/sql_service.py: the translator. *)

\* a loop that takes every column as named in the request (the variant the
\* property of the rules' precedence is tested against)
EveryColumn(query, column_names) == DOMAIN column_names

\* the indices of the columns whose lowercased name occurs in the request, as
\* `for col in column_names: if col.lower() in query` meets them
ColumnHits(query, column_names) ==
    {i \in DOMAIN column_names : Contains(query, LowerText(column_names[i]))}

\* the value spliced into a WHERE clause: numbers[0], or the default 0
WhereValue(query) == IF HasDigits(query) THEN FirstNumber(query) ELSE Lit.zero

\* the body of the `for col` loop of the "where" branch, for the column found
WhereText(query, col) ==
    LET has(k) == Contains(query, k)
        text(L, head, value) ==
            IF has(L.kw_greater_than) \/ has(L.kw_gt)
            THEN head \o L.gt_ \o value
            ELSE IF has(L.kw_less_than) \/ has(L.kw_lt)
            THEN head \o L.lt_ \o value
            ELSE IF has(L.kw_equal) \/ has(L.kw_eq)
            THEN head \o L.eq_ \o value
            ELSE head \o L.is_not_null
    IN  text(Lit, Lit.select_star_from \o table_name \o Lit.where_ \o col, WhereValue(query))

\* the default query
DefaultText == Lit.select_star_from \o table_name \o Lit.limit_10

\* the if/elif chain of lines 194-283; <<>> is the empty sql_query
KeywordRules(query, column_names) ==
    LET has(k) == Contains(query, k)
        hits == ColumnHits(query, column_names)
        col == column_names[Min(hits)]
        agg_col == column_names[Min(hits \ {Min(hits)})]
        rules(L) ==
            IF has(L.kw_average) \/ has(L.kw_avg) \/ has(L.kw_mean)
            THEN IF hits # {}
                 THEN L.select_avg \o col \o L.as_average \o col \o L.from_ \o table_name
                 ELSE DefaultText
            ELSE IF has(L.kw_sum) \/ has(L.kw_total)
            THEN IF hits # {}
                 THEN L.select_sum \o col \o L.as_sum \o col \o L.from_ \o table_name
                 ELSE <<>>
            ELSE IF has(L.kw_count)
            THEN IF has(L.kw_group_by) \/ has(L.kw_grouped_by)
                 THEN IF hits # {}
                      THEN L.select_ \o col \o L.count_star_from \o table_name
                             \o L.group_by \o col
                      ELSE <<>>
                 ELSE L.select_count_from \o table_name
            ELSE IF has(L.kw_maximum) \/ has(L.kw_max)
            THEN IF hits # {}
                 THEN L.select_max \o col \o L.as_max \o col \o L.from_ \o table_name
                 ELSE <<>>
            ELSE IF has(L.kw_minimum) \/ has(L.kw_min)
            THEN IF hits # {}
                 THEN L.select_min \o col \o L.as_min \o col \o L.from_ \o table_name
                 ELSE <<>>
            ELSE IF has(L.kw_group_by) \/ has(L.kw_grouped_by)
            THEN IF Cardinality(hits) >= 2
                 THEN L.select_ \o col \o L.comma_avg \o agg_col \o L.as_avg \o agg_col
                        \o L.from_ \o table_name \o L.group_by \o col
                 ELSE IF hits # {}
                 THEN L.select_ \o col \o L.count_star_from \o table_name
                        \o L.group_by \o col
                 ELSE <<>>
            ELSE IF has(L.kw_where)
            THEN IF hits # {} THEN WhereText(query, col) ELSE <<>>
            ELSE <<>>
    IN  rules(Lit)

\* lines 285-294: the queries about age, tried when sql_query is still empty
AgeRules(query, sql_query) ==
    LET has(k) == Contains(query, k)
        rules(L) ==
            IF has(L.kw_age) /\ sql_query = <<>>
            THEN IF has(L.kw_average_age) \/ has(L.kw_mean_age)
                 THEN L.avg_age \o table_name
                 ELSE IF has(L.kw_total_age) \/ has(L.kw_sum_of_age)
                 THEN L.sum_age \o table_name
                 ELSE IF has(L.kw_maximum_age) \/ has(L.kw_oldest)
                 THEN L.max_age \o table_name
                 ELSE IF has(L.kw_minimum_age) \/ has(L.kw_youngest)
                 THEN L.min_age \o table_name
                 ELSE sql_query
            ELSE sql_query
    IN  rules(Lit)

\* lines 296-307: the queries about salary, tried when sql_query is still empty
SalaryRules(query, sql_query) ==
    LET has(k) == Contains(query, k)
        rules(L) ==
            IF has(L.kw_salary) /\ sql_query = <<>>
            THEN IF has(L.kw_average_salary) \/ has(L.kw_mean_salary)
                 THEN L.avg_salary \o table_name
                 ELSE IF has(L.kw_total_salary) \/ has(L.kw_sum_of_salary)
                 THEN L.sum_salary \o table_name
                 ELSE IF has(L.kw_maximum_salary) \/ has(L.kw_highest_salary)
                 THEN L.max_salary \o table_name
                 ELSE IF has(L.kw_minimum_salary) \/ has(L.kw_lowest_salary)
                 THEN L.min_salary \o table_name
                 ELSE IF has(L.kw_salary_by_department) \/ has(L.kw_salary_per_department)
                 THEN L.dept_salary \o table_name \o L.dept_order
                 ELSE sql_query
            ELSE sql_query
    IN  rules(Lit)

\* a matcher without lines 309-313: the query as the rules left it (the
\* variant the default's property is tested against)
QueryAsLeft(sql_query) == sql_query

\* lines 309-313: the default when no pattern matched
DefaultRule(sql_query) == IF sql_query = <<>> THEN DefaultText ELSE sql_query

\* SQLAssistant.natural_language_to_sql(nl_query), on the column names of
\* self.schema
natural_language_to_sql(nl, column_names) ==
    LET query == Strip(LowerText(nl))
    IN  DefaultRule(SalaryRules(query, AgeRules(query, KeywordRules(query, column_names))))

\* the two re.sub calls that remove a Markdown code fence (three backquotes
\* and "sql" in front, three backquotes behind)
StripFence(s) ==
    LET fence == <<BQ, BQ, BQ>>
        open == fence \o <<"s", "q", "l">>
        a == IF StartsWith(s, open)
             THEN LET rest == SubSeq(s, Len(open) + 1, Len(s))
                      body == {i \in DOMAIN rest : rest[i] \notin SpaceChars}
                  IN  IF body = {} THEN <<>> ELSE SubSeq(rest, Min(body), Len(rest))
             ELSE s
    IN  IF EndsWith(a, fence)
        THEN LET rest == SubSeq(a, 1, Len(a) - Len(fence))
                 body == {i \in DOMAIN rest : rest[i] \notin SpaceChars}
             IN  IF body = {} THEN <<>> ELSE SubSeq(rest, 1, Max(body))
        ELSE a

\* a translator that returns None when the remote answer cannot be used (the
\* variant the fallback's property is tested against)
groq_without_fallback(nl, column_names, remote) ==
    IF remote.kind = "no_key"
    THEN natural_language_to_sql(nl, column_names)
    ELSE IF remote.kind = "ok"
    THEN StripFence(Strip(remote.content))
    ELSE NoneText

\* SQLAssistant.natural_language_to_sql_with_groq(nl_query).  remote is how
\* the call to the remote service ends: [kind, content] with kind
\*   "no_key"     GROQ_API_KEY is not set
\*   "exception"  requests.post raises
\*   "non200"     a response whose status_code is not 200
\*   "malformed"  a 200 response whose payload has no choices[0].message.content text
\*   "ok"         a 200 response with the text `content`
natural_language_to_sql_with_groq(nl, column_names, remote) ==
    IF remote.kind = "no_key"
    THEN natural_language_to_sql(nl, column_names)
    ELSE IF column_names = <<>>
    THEN NoneText
    ELSE IF remote.kind = "ok"
    THEN StripFence(Strip(remote.content))
    ELSE natural_language_to_sql(nl, column_names)

-----------------------------------------------------------------------------
(* The embedded engine: sqlite3 behind DataFrame.to_sql and                 *)
(* pd.read_sql_query.  It implements the statements the rule-based matcher   *)
(* can produce, on tokens, with SQLite's rules for identifiers, affinities   *)
(* and comparisons; every other text is a syntax error.  A number is the     *)
(* pair <<numerator, denominator>> in lowest terms, NULL is <<>>.            *)

\* the order of two texts under SQLite's BINARY collation
LexLess(a, b) ==
    LET n == IF Len(a) < Len(b) THEN Len(a) ELSE Len(b)
        diff == {k \in 1..n : a[k] # b[k]}
    IN  IF diff = {} THEN Len(a) < Len(b) ELSE Code(a[Min(diff)]) < Code(b[Min(diff)])

RECURSIVE Gcd(_, _)
Gcd(a, b) == IF b = 0 THEN a ELSE Gcd(b, a % b)

Abs(n) == IF n < 0 THEN -n ELSE n

\* the number n/d in lowest terms (d > 0)
Rat(n, d) == LET g == Gcd(Abs(n), d) IN <<n \div g, d \div g>>

RatAdd(p, r) == Rat(p[1] * r[2] + r[1] * p[2], p[2] * r[2])

RatLess(p, r) == p[1] * r[2] < r[1] * p[2]

\* the elements of a set as a sequence in increasing order; below[x] is the
\* set of the elements that come before x
SortSet(S, below) ==
    [i \in 1..Cardinality(S) |-> CHOOSE x \in S : Cardinality(below[x]) = i - 1]

\* the keywords of the statements, in lower case

Sql ==
    [ select |-> <<"s","e","l","e","c","t">>,
      from |-> <<"f","r","o","m">>,
      where |-> <<"w","h","e","r","e">>,
      group |-> <<"g","r","o","u","p">>,
      by |-> <<"b","y">>,
      order |-> <<"o","r","d","e","r">>,
      desc |-> <<"d","e","s","c">>,
      limit |-> <<"l","i","m","i","t">>,
      as |-> <<"a","s">>,
      avg |-> <<"a","v","g">>,
      sum |-> <<"s","u","m">>,
      max |-> <<"m","a","x">>,
      min |-> <<"m","i","n">>,
      count |-> <<"c","o","u","n","t">>,
      is |-> <<"i","s">>,
      not |-> <<"n","o","t">>,
      null |-> <<"n","u","l","l">> ]

\* pd.to_numeric on the object columns (execute_sql_from_natural_language,
\* lines 337-348): a column whose every cell is a text of digits becomes int64
ConvertNumericColumns(df) ==
    LET numeric(j) == /\ df.dtypes[j] = "object"
                      /\ \A r \in DOMAIN df.rows : IsNumberText(df.rows[r][j])
    IN  [columns |-> df.columns,
         dtypes |-> [j \in DOMAIN df.dtypes |-> IF numeric(j) THEN "int64" ELSE df.dtypes[j]],
         rows |-> [r \in DOMAIN df.rows |->
                     [j \in DOMAIN df.columns |->
                         IF numeric(j) THEN ToInt(df.rows[r][j]) ELSE df.rows[r][j]]]]

\* the column type to_sql declares for a dtype
SqlType(dtype) ==
    IF dtype = "int64" THEN "INTEGER" ELSE IF dtype = "float64" THEN "REAL" ELSE "TEXT"

\* SQLAssistant.connect_to_sqlite_memory(df): the column names are sanitised
\* and the frame is written to the table; CREATE TABLE fails on a frame
\* without columns and on two columns whose names differ at most in case
connect_to_sqlite_memory(df) ==
    LET names == [j \in DOMAIN df.columns |-> Sanitize(df.columns[j])]
        clash == \E i, j \in DOMAIN names :
                    i # j /\ LowerText(names[i]) = LowerText(names[j])
    IN  IF names = <<>> \/ clash
        THEN [ok |-> FALSE, table |-> [columns |-> <<>>, types |-> <<>>, rows |-> <<>>]]
        ELSE [ok |-> TRUE,
              table |-> [columns |-> names,
                         types |-> [j \in DOMAIN names |-> SqlType(df.dtypes[j])],
                         rows |-> df.rows]]

\* SQLite's tokens: a run of word characters, or one other character;
\* white space separates
RECURSIVE Tokens(_)
Tokens(s) ==
    IF s = <<>> THEN <<>>
    ELSE IF s[1] \in SpaceChars THEN Tokens(Tail(s))
    ELSE IF s[1] \in WordChars
    THEN LET w == RunFrom(s, 1, WordChars)
         IN  <<w>> \o Tokens(SubSeq(s, Len(w) + 1, Len(s)))
    ELSE <<<<s[1]>>>> \o Tokens(Tail(s))

\* a token that is the keyword k, in any case
IsKw(tok, k) == LowerText(tok) = k

\* a token that can name a column, an alias or a table
IsIdent(tok) ==
    /\ tok # <<>>
    /\ \A i \in DOMAIN tok : tok[i] \in WordChars
    /\ tok[1] \notin DigitChars
    /\ LowerText(tok) \notin {Sql.select, Sql.from, Sql.where, Sql.group, Sql.by, Sql.order,
                              Sql.desc, Sql.limit, Sql.as, Sql.is, Sql.not, Sql.null}

\* the index of the column a name refers to (names match in any case), or 0
ColumnIndex(table, tok) ==
    LET hit == {j \in DOMAIN table.columns : LowerText(table.columns[j]) = LowerText(tok)}
    IN  IF hit = {} THEN 0 ELSE Min(hit)

\* a cell as a number: a TEXT cell counts as its leading digits, 0 without any
CellNumber(type, cell) ==
    IF type = "INTEGER" THEN <<cell, 1>>
    ELSE IF type = "REAL" THEN Rat(cell[1], cell[2])
    ELSE <<ToInt(RunFrom(cell, 1, DigitChars)), 1>>

\* a cell as SQLite returns it: numbers as <<n, d>>, texts as they are
CellValue(type, cell) == IF type = "TEXT" THEN cell ELSE CellNumber(type, cell)

\* the order of two cells of a column
CellLess(type, a, b) ==
    IF type = "TEXT" THEN LexLess(a, b) ELSE RatLess(CellNumber(type, a), CellNumber(type, b))

RECURSIVE RatSum(_)
RatSum(qs) == IF qs = <<>> THEN <<0, 1>> ELSE RatAdd(Head(qs), RatSum(Tail(qs)))

\* AVG, SUM, MAX or MIN of column j over the rows
Aggregate(fn, table, j, rows) ==
    LET type == table.types[j]
        nums == [r \in DOMAIN rows |-> CellNumber(type, rows[r][j])]
        total == RatSum(nums)
        cells == {rows[r][j] : r \in DOMAIN rows}
    IN  IF rows = <<>> THEN <<>>
        ELSE IF fn = Sql.avg THEN Rat(total[1], total[2] * Len(rows))
        ELSE IF fn = Sql.sum THEN total
        ELSE IF fn = Sql.max
        THEN CellValue(type, CHOOSE c \in cells : \A d \in cells : ~CellLess(type, c, d))
        ELSE CellValue(type, CHOOSE c \in cells : \A d \in cells : ~CellLess(type, d, c))

\* the rows of a result: every cell as SQLite returns it
ResultRows(table, rows) ==
    [r \in DOMAIN rows |-> [j \in DOMAIN table.columns |-> CellValue(table.types[j], rows[r][j])]]

\* column j compared with the integer literal v: a TEXT column compares the
\* literal as a text, the other columns compare numbers
Compare(op, table, j, cell, v) ==
    LET type == table.types[j]
        less == IF type = "TEXT" THEN LexLess(cell, v)
                ELSE RatLess(CellNumber(type, cell), <<ToInt(v), 1>>)
        more == IF type = "TEXT" THEN LexLess(v, cell)
                ELSE RatLess(<<ToInt(v), 1>>, CellNumber(type, cell))
    IN  IF op = <<">">> THEN more ELSE IF op = <<"<">> THEN less ELSE ~less /\ ~more

\* the rows whose column j satisfies the test, in table order
RECURSIVE FilterRows(_, _, _, _, _)
FilterRows(op, table, j, v, rows) ==
    IF rows = <<>> THEN <<>>
    ELSE (IF Compare(op, table, j, Head(rows)[j], v) THEN <<Head(rows)>> ELSE <<>>)
           \o FilterRows(op, table, j, v, Tail(rows))

\* the rows whose column j holds `key`, in table order
RECURSIVE GroupRows(_, _, _)
GroupRows(j, key, rows) ==
    IF rows = <<>> THEN <<>>
    ELSE (IF Head(rows)[j] = key THEN <<Head(rows)>> ELSE <<>>) \o GroupRows(j, key, Tail(rows))

\* the group keys of column j, in increasing order
GroupKeys(table, j) ==
    LET keys(S) == SortSet(S, [x \in S |-> {y \in S : CellLess(table.types[j], y, x)}])
    IN  keys({table.rows[r][j] : r \in DOMAIN table.rows})

\* the dict execute_query returns for a result set
Ok(columns, rows) == [columns |-> columns, rows |-> rows, row_count |-> Len(rows)]

\* an error dict that also carries an empty result set (the variant the
\* executor's property is tested against)
ErrWithEmptyResult(message) ==
    [error |-> message, columns |-> <<>>, rows |-> <<>>, row_count |-> 0]

\* the dict {'error': message}
Err(message) == [error |-> message]

\* SELECT * FROM t [LIMIT n | WHERE c op v | WHERE c IS NOT NULL]
StarStatement(table, t) ==
    LET n == Len(t)
        j == ColumnIndex(table, t[6])
        shape == /\ IsIdent(t[4])
                 /\ \/ n = 4
                    \/ n = 6 /\ IsKw(t[5], Sql.limit) /\ IsNumberText(t[6])
                    \/ n = 8 /\ IsKw(t[5], Sql.where) /\ IsIdent(t[6])
                             /\ t[7] \in {<<">">>, <<"<">>, <<"=">>} /\ IsNumberText(t[8])
                    \/ n = 9 /\ IsKw(t[5], Sql.where) /\ IsIdent(t[6]) /\ IsKw(t[7], Sql.is)
                             /\ IsKw(t[8], Sql.not) /\ IsKw(t[9], Sql.null)
    IN  IF ~shape THEN Err("syntax error")
        ELSE IF LowerText(t[4]) # LowerText(table_name) THEN Err("no such table")
        ELSE IF n = 4 THEN Ok(table.columns, ResultRows(table, table.rows))
        ELSE IF n = 6
        THEN Ok(table.columns,
                ResultRows(table, SubSeq(table.rows, 1,
                                         IF ToInt(t[6]) < Len(table.rows)
                                         THEN ToInt(t[6]) ELSE Len(table.rows))))
        ELSE IF j = 0 THEN Err("no such column")
        ELSE IF n = 8
        THEN Ok(table.columns, ResultRows(table, FilterRows(t[7], table, j, t[8], table.rows)))
        ELSE Ok(table.columns, ResultRows(table, table.rows))

\* SELECT f(c) as a FROM t, and SELECT COUNT(*) as a FROM t
AggregateStatement(table, t) ==
    LET fn == LowerText(t[2])
        j == ColumnIndex(table, t[4])
        shape == /\ t[3] = <<"(">> /\ t[5] = <<")">> /\ IsKw(t[6], Sql.as) /\ IsIdent(t[7])
                 /\ IsKw(t[8], Sql.from) /\ IsIdent(t[9])
                 /\ \/ fn \in {Sql.avg, Sql.sum, Sql.max, Sql.min} /\ IsIdent(t[4])
                    \/ fn = Sql.count /\ t[4] = <<"*">>
    IN  IF ~shape THEN Err("syntax error")
        ELSE IF LowerText(t[9]) # LowerText(table_name) THEN Err("no such table")
        ELSE IF fn = Sql.count THEN Ok(<<t[7]>>, << <<<<Len(table.rows), 1>>>> >>)
        ELSE IF j = 0 THEN Err("no such column")
        ELSE Ok(<<t[7]>>, << <<Aggregate(fn, table, j, table.rows)>> >>)

\* SELECT g, COUNT(*) as a FROM t GROUP BY g, and
\* SELECT g, AVG(c) as a FROM t GROUP BY g [ORDER BY a DESC]
GroupStatement(table, t) ==
    LET shape(fn) ==
            /\ IsIdent(t[2]) /\ t[3] = <<",">> /\ t[5] = <<"(">> /\ t[7] = <<")">>
            /\ IsKw(t[8], Sql.as) /\ IsIdent(t[9]) /\ IsKw(t[10], Sql.from)
            /\ IsIdent(t[11]) /\ IsKw(t[12], Sql.group) /\ IsKw(t[13], Sql.by)
            /\ LowerText(t[14]) = LowerText(t[2])
            /\ \/ fn = Sql.avg /\ IsIdent(t[6])
               \/ fn = Sql.count /\ t[6] = <<"*">>
            /\ \/ Len(t) = 14
               \/ Len(t) = 18 /\ IsKw(t[15], Sql.order) /\ IsKw(t[16], Sql.by)
                               /\ LowerText(t[17]) = LowerText(t[9]) /\ IsKw(t[18], Sql.desc)
        ordered(g, keys, values, order) ==
            Ok(<<table.columns[g], t[9]>>,
               [k \in DOMAIN keys |->
                   <<CellValue(table.types[g], keys[order[k]]), values[order[k]]>>])
        sorted(g, keys, values) ==
            LET before(a, b) ==
                    RatLess(values[b], values[a]) \/ (values[a] = values[b] /\ a < b)
            IN  ordered(g, keys, values,
                        IF Len(t) = 14 THEN [k \in DOMAIN keys |-> k]
                        ELSE SortSet(DOMAIN keys,
                                     [b \in DOMAIN keys |-> {a \in DOMAIN keys : before(a, b)}]))
        grouped(fn, g, j, keys) ==
            sorted(g, keys,
                   [k \in DOMAIN keys |->
                       IF fn = Sql.count
                       THEN <<Len(GroupRows(g, keys[k], table.rows)), 1>>
                       ELSE Aggregate(fn, table, j, GroupRows(g, keys[k], table.rows))])
        statement(fn, g, j) ==
            IF ~shape(fn) THEN Err("syntax error")
            ELSE IF LowerText(t[11]) # LowerText(table_name) THEN Err("no such table")
            ELSE IF g = 0 \/ (fn = Sql.avg /\ j = 0) THEN Err("no such column")
            ELSE grouped(fn, g, j, GroupKeys(table, g))
    IN  statement(LowerText(t[4]), ColumnIndex(table, t[2]), ColumnIndex(table, t[6]))

\* SQLAssistant.execute_query(query) on a connected assistant: the result of
\* pd.read_sql_query as columns, rows and row_count, or {'error': message}
execute_query(table, query) ==
    LET statement(t) ==
            IF Len(t) < 4 \/ ~IsKw(t[1], Sql.select) THEN Err("syntax error")
            ELSE IF t[2] = <<"*">> /\ IsKw(t[3], Sql.from) /\ Len(t) \in {4, 6, 8, 9}
            THEN StarStatement(table, t)
            ELSE IF Len(t) = 9 THEN AggregateStatement(table, t)
            ELSE IF Len(t) \in {14, 18} THEN GroupStatement(table, t)
            ELSE Err("syntax error")
    IN  statement(IF query = NoneText THEN <<>> ELSE Tokens(query))

\* execute_sql_from_natural_language(df, nl_query, use_groq): the dict it
\* returns
execute_sql_from_natural_language(df, nl, use_groq, remote) ==
    LET run(c, sql_query) ==
            IF ~c.ok
            THEN Err("Failed to create SQL database from dataset")
            ELSE [natural_language |-> nl, sql |-> sql_query,
                  results |-> execute_query(c.table, sql_query)]
        translate(c) ==
            run(c, IF use_groq
                   THEN natural_language_to_sql_with_groq(nl, c.table.columns, remote)
                   ELSE natural_language_to_sql(nl, c.table.columns))
    IN  translate(connect_to_sqlite_memory(ConvertNumericColumns(df)))

-----------------------------------------------------------------------------
(* What clients send. *)

\* the days the clock advances between two requests
ClockSteps == {SESSION_TTL_DAYS + 1}

\* the JSON bodies of PUT /sessions/<id>/metadata
ClientPartials == {[note |-> "checked"], [has_data |-> FALSE]}

\* the names of uploaded files
Filenames == {"data.csv"}

\* how the remote service answers: no key is configured, an error status,
\* a fenced query
NoKey == [kind |-> "no_key", content |-> <<>>]
Non200 == [kind |-> "non200", content |-> <<>>]
FencedCount ==
    [kind |-> "ok",
     content |-> <<BQ, BQ, BQ, "s", "q", "l", "\n">> \o Lit.select_count_from
                   \o table_name \o <<"\n", BQ, BQ, BQ>>]

\* the requests of POST /api/sql/query and /api/sql/translate: the text, the
\* use_api flag and the remote service's answer to it
NLRequests ==
    { [query |-> <<"w","h","a","t"," ","i","s"," ","t","h","e"," ","a","v","e","r","a","g","e"," ","s","a","l","a","r","y">>,
       use_api |-> FALSE, remote |-> NoKey],
      [query |-> <<"T","o","t","a","l"," ","s","a","l","a","r","y">>,
       use_api |-> FALSE, remote |-> NoKey],
      [query |-> <<"s","h","o","w"," ","t","h","e"," ","r","o","w","s">>,
       use_api |-> TRUE, remote |-> Non200],
      [query |-> <<"s","h","o","w"," ","t","h","e"," ","r","o","w","s">>,
       use_api |-> TRUE, remote |-> FencedCount] }

\* the texts of POST /api/sql/execute: an aggregate of a column that only some
\* datasets have, and a text with an unmatched parenthesis
ClientQueries ==
    { <<"S","E","L","E","C","T"," ","M","A","X","(","q","t","y",")"," ","a","s"," ","m"," ","F","R","O","M"," ","u","s","e","r","_","d","a","t","a">>,
      <<"S","E","L","E","C","T"," ","*"," ","F","R","O","M"," ","u","s","e","r","_","d","a","t","a"," ","W","H","E","R","E"," ","(">> }

\* the frames a preprocessing service returns for df: a filter keeps the
\* rows that match, here the first
ProcessedFrames(df) == {[df EXCEPT !.rows = SubSeq(@, 1, 1)]}

-----------------------------------------------------------------------------
(* The requests.  Each action is one route handler, run to its response.    *)
(* resp is [op, sid, t, status, body].                                      *)

Reply(op, sid, status, body) ==
    resp' = [op |-> op, sid |-> sid, t |-> now, status |-> status, body |-> body]

EnvUnchanged ==
    UNCHANGED <<now, mongoUp, moduleLoaded, fallbackDefined, indexes_created, harnessVars, engineVars, threadVars>>

\* POST /api/sessions
create_new_session ==
    /\ moduleLoaded
    /\ \E sid \in ({"uuid"} \X (1..MaxSessions)) \ allocated :
          LET r == create_session(World, sid)
          IN  /\ Commit(r.w)
              /\ allocated' = allocated \cup {sid}
              /\ Reply("create_new_session", sid, 201, [session_id |-> sid])
    /\ EnvUnchanged

\* GET /api/sessions/<session_id>: KeyError is answered 404; a session dict
\* that holds the DataFrame cannot be serialised by jsonify, which is answered
\* 500 by the handler's `except Exception`
get_session_info(sid) ==
    /\ moduleLoaded
    /\ LET r == get_session(World, sid)
       IN  /\ Commit(r.w)
           /\ IF r.exc = "KeyError"
              THEN Reply("get_session_info", sid, 404, [error |-> "Session not found"])
              ELSE IF "df" \in DOMAIN r.val
              THEN Reply("get_session_info", sid, 500, [error |-> "Error getting session info"])
              ELSE Reply("get_session_info", sid, 200, [session |-> r.val])
    /\ UNCHANGED allocated
    /\ EnvUnchanged

\* PUT /api/sessions/<session_id>/metadata: the ValueError of
\* update_session_metadata falls to `except Exception`
update_session_metadata_route(sid, data) ==
    /\ moduleLoaded
    /\ LET r1 == update_session_metadata(World, sid, data)
           r2 == get_session_metadata(r1.w, sid)
       IN  IF r1.exc # "none"
           THEN /\ Commit(r1.w)
                /\ Reply("update_session_metadata_route", sid, 500,
                         [error |-> "Error updating metadata"])
           ELSE /\ Commit(r2.w)
                /\ IF r2.exc # "none"
                   THEN Reply("update_session_metadata_route", sid, 500,
                              [error |-> "Error updating metadata"])
                   ELSE Reply("update_session_metadata_route", sid, 200,
                              [status |-> "success", metadata |-> r2.val])
    /\ UNCHANGED allocated
    /\ EnvUnchanged

\* POST /api/sessions/<session_id>/upload; df is the frame pd.read_csv
\* parses from the uploaded file
upload_file_to_session(sid, df, filename) ==
    /\ moduleLoaded
    /\ LET r0 == get_session(World, sid)
           r1 == add_session_data(r0.w, sid, df, filename)
           r2 == get_session_metadata(r1.w, sid)
       IN  IF r0.exc = "KeyError"
           THEN /\ Commit(r0.w)
                /\ Reply("upload_file_to_session", sid, 404, [error |-> "Session not found"])
           ELSE IF r1.exc # "none"
           THEN /\ Commit(r1.w)
                /\ Reply("upload_file_to_session", sid, 500, [error |-> "Error processing file"])
           ELSE /\ Commit(r2.w)
                /\ IF r2.exc # "none"
                   THEN Reply("upload_file_to_session", sid, 500,
                              [error |-> "Error processing file"])
                   ELSE Reply("upload_file_to_session", sid, 200,
                              [status |-> "success", filename |-> filename,
                               rows |-> DictGet(r2.val, "rows", 0),
                               columns |-> DictGet(r2.val, "columns", 0)])
    /\ UNCHANGED allocated
    /\ EnvUnchanged

\* POST /api/dataset/upload: a new session for the uploaded file
upload_dataset(df, filename) ==
    /\ moduleLoaded
    /\ \E sid \in ({"uuid"} \X (1..MaxSessions)) \ allocated :
          LET r0 == create_session(World, sid)
              r1 == add_session_data(r0.w, sid, df, filename)
              r2 == get_session_metadata(r1.w, sid)
          IN  /\ allocated' = allocated \cup {sid}
              /\ IF r1.exc # "none"
                 THEN /\ Commit(r1.w)
                      /\ Reply("upload_dataset", sid, 500, [error |-> "Error processing file"])
                 ELSE /\ Commit(r2.w)
                      /\ IF r2.exc # "none"
                         THEN Reply("upload_dataset", sid, 500,
                                    [error |-> "Error processing file"])
                         ELSE Reply("upload_dataset", sid, 200,
                                    [session_id |-> sid, filename |-> filename,
                                     rows |-> DictGet(r2.val, "rows", Len(df.rows)),
                                     columns |-> DictGet(r2.val, "columns", Len(df.columns)),
                                     column_names |-> DictGet(r2.val, "column_names",
                                                              df.columns)])
    /\ EnvUnchanged

\* DELETE /api/sessions/<session_id>: delete_session, then delete_dataset,
\* whose delete_one removes one document of the session if there is any
remove_session(sid) ==
    /\ moduleLoaded
    /\ LET r == delete_session(World, sid)
           keys == {k \in DOMAIN r.w.dsets : k[1] = sid}
       IN  \E k \in IF keys = {} THEN {<<sid, "">>} ELSE keys :
              Commit([r.w EXCEPT !.dsets = delete_dataset(@, k)])
    /\ Reply("remove_session", sid, 200, [status |-> "success"])
    /\ UNCHANGED allocated
    /\ EnvUnchanged

\* GET /api/sessions/<session_id>/data: every exception is answered 500
get_session_data_route(sid) ==
    /\ moduleLoaded
    /\ LET r == get_session_data(World, sid)
       IN  /\ Commit(r.w)
           /\ IF r.exc # "none"
              THEN Reply("get_session_data_route", sid, 500,
                         [error |-> "Error retrieving session data"])
              ELSE Reply("get_session_data_route", sid, 200,
                         [status |-> "success", columns |-> r.val.columns,
                          total_rows |-> Len(r.val.rows)])
    /\ UNCHANGED allocated
    /\ EnvUnchanged

\* GET /api/sessions/<session_id>/metadata: every exception is answered 500
get_session_metadata_route(sid) ==
    /\ moduleLoaded
    /\ LET r == get_session_metadata(World, sid)
       IN  /\ Commit(r.w)
           /\ IF r.exc # "none"
              THEN Reply("get_session_metadata_route", sid, 500,
                         [error |-> "Error retrieving session metadata"])
              ELSE Reply("get_session_metadata_route", sid, 200,
                         [status |-> "success", metadata |-> r.val])
    /\ UNCHANGED allocated
    /\ EnvUnchanged

\* add_preprocessing_step(session_id, step_type, **details): the step is
\* appended to session.get('metadata', {}) and that dict is saved as the
\* session's metadata; every exception is swallowed
add_preprocessing_step(w, sid, step_type) ==
    LET r == get_session(w, sid)
        step == [type |-> step_type, timestamp |-> now]
        metadata == DictGet(r.val, "metadata", EmptyDict)
        steps == DictGet(metadata, "preprocessing_steps", <<>>)
        saved == Put(metadata, "preprocessing_steps", Append(steps, step))
        s == save_session_metadata(r.w.coll, r.w.mem, sid, saved)
    IN  IF r.exc # "none" THEN r.w ELSE WithStore(r.w, s)

\* the preprocessing_steps list of the stored metadata of a session
StoredSteps(sid) ==
    IF sid \in DOMAIN sessions_collection
    THEN DictGet(sessions_collection[sid].metadata, "preprocessing_steps", <<>>)
    ELSE <<>>

\* POST /api/preprocessing/missing-values, /normalize, /encode and /filter:
\* get_session_data, the service's transformation, update_session_data,
\* add_preprocessing_step; every exception is answered 500
preprocessing_route(sid, step_type) ==
    /\ moduleLoaded
    /\ Len(StoredSteps(sid)) < MaxSteps
    /\ LET r1 == get_session_data(World, sid)
       IN  IF r1.exc # "none"
           THEN /\ Commit(r1.w)
                /\ Reply("preprocessing_route", sid, 500, [error |-> "Error"])
           ELSE \E result_df \in ProcessedFrames(r1.val) :
                   LET r2 == update_session_data(r1.w, sid, result_df)
                   IN  IF r2.exc # "none"
                       THEN /\ Commit(r2.w)
                            /\ Reply("preprocessing_route", sid, 500, [error |-> "Error"])
                       ELSE /\ Commit(add_preprocessing_step(r2.w, sid, step_type))
                            /\ Reply("preprocessing_route", sid, 200,
                                     [rows |-> Len(result_df.rows),
                                      columns |-> Len(result_df.columns)])
    /\ UNCHANGED allocated
    /\ EnvUnchanged

\* POST /api/sql/execute
execute_sql(sid, query) ==
    /\ moduleLoaded
    /\ LET answer(result) ==
               IF "error" \in DOMAIN result
               THEN Reply("execute_sql", sid, 400, [error |-> result.error])
               ELSE Reply("execute_sql", sid, 200, result)
           run(c) ==
               IF ~c.ok
               THEN Reply("execute_sql", sid, 500,
                          [error |-> "Failed to create in-memory SQL database"])
               ELSE answer(execute_query(c.table, query))
           handle(r) ==
               /\ Commit(r.w)
               /\ IF r.exc # "none"
                  THEN Reply("execute_sql", sid, 404,
                             [error |-> "Session not found or no dataset loaded"])
                  ELSE run(connect_to_sqlite_memory(r.val))
       IN  handle(get_session_data(World, sid))
    /\ UNCHANGED allocated
    /\ EnvUnchanged

\* POST /api/sql/translate
translate_natural_language(sid, nl, use_groq, remote) ==
    /\ moduleLoaded
    /\ LET answer(sql_query) ==
               IF sql_query = <<>> \/ sql_query = NoneText
               THEN Reply("translate_natural_language", sid, 400,
                          [error |-> "Failed to translate natural language to SQL"])
               ELSE Reply("translate_natural_language", sid, 200,
                          [nl_query |-> nl, sql_query |-> sql_query])
           run(c) ==
               IF ~c.ok
               THEN Reply("translate_natural_language", sid, 500,
                          [error |-> "Failed to create in-memory SQL database"])
               ELSE answer(IF use_groq
                           THEN natural_language_to_sql_with_groq(nl, c.table.columns, remote)
                           ELSE natural_language_to_sql(nl, c.table.columns))
           handle(r) ==
               /\ Commit(r.w)
               /\ IF r.exc # "none"
                  THEN Reply("translate_natural_language", sid, 404,
                             [error |-> "Session not found or no dataset loaded"])
                  ELSE run(connect_to_sqlite_memory(r.val))
       IN  handle(get_session_data(World, sid))
    /\ UNCHANGED allocated
    /\ EnvUnchanged

\* POST /api/sql/query: only a top-level 'error' key of the dict
\* execute_sql_from_natural_language returns is answered 400; the response is
\* built with .get and its defaults
query_with_natural_language(sid, query, use_api, remote) ==
    /\ moduleLoaded
    /\ LET body(result, results) ==
               [sql_query |-> DictGet(result, "sql", <<>>),
                columns |-> DictGet(results, "columns", <<>>),
                rows |-> DictGet(results, "rows", <<>>),
                row_count |-> DictGet(results, "row_count", 0),
                natural_language |-> query]
           answer(result) ==
               IF "error" \in DOMAIN result
               THEN Reply("query_with_natural_language", sid, 400, [error |-> result.error])
               ELSE Reply("query_with_natural_language", sid, 200,
                          body(result, DictGet(result, "results", EmptyDict)))
           handle(r) ==
               /\ Commit(r.w)
               /\ IF r.exc # "none"
                  THEN Reply("query_with_natural_language", sid, 404,
                             [error |-> "Session not found or no dataset loaded"])
                  ELSE answer(execute_sql_from_natural_language(r.val, query, use_api, remote))
       IN  handle(get_session_data(World, sid))
    /\ UNCHANGED allocated
    /\ EnvUnchanged

-----------------------------------------------------------------------------
(* The environment. *)

\* time passes
Tick ==
    /\ \E d \in ClockSteps : now + d <= MaxTime /\ now' = now + d
    /\ UNCHANGED <<mongoUp, moduleLoaded, fallbackDefined, IN_MEMORY_SESSIONS,
                   sessions_collection, datasets_collection, session_dirs, pkl_files,
                   csv_files, allocated, indexes_created, resp, harnessVars, engineVars, threadVars>>

\* MongoDB becomes unreachable: every call on a collection raises
MongoFails ==
    /\ mongoUp
    /\ mongoUp' = FALSE
    /\ UNCHANGED <<now, moduleLoaded, fallbackDefined, IN_MEMORY_SESSIONS,
                   sessions_collection, datasets_collection, session_dirs, pkl_files,
                   csv_files, allocated, indexes_created, resp, harnessVars, engineVars, threadVars>>

\* MongoDB is reachable again
MongoRecovers ==
    /\ ~mongoUp
    /\ mongoUp' = TRUE
    /\ UNCHANGED <<now, moduleLoaded, fallbackDefined, IN_MEMORY_SESSIONS,
                   sessions_collection, datasets_collection, session_dirs, pkl_files,
                   csv_files, allocated, indexes_created, resp, harnessVars, engineVars, threadVars>>

\* the documents the TTL index on expires_at lets MongoDB delete:
\* expireAfterSeconds after the indexed date
Reapable == {sid \in DOMAIN sessions_collection :
                sessions_collection[sid].expires_at + TTL_INDEX_DAYS <= now}

\* MongoDB's TTL monitor removes the documents the index has expired
TTLMonitor ==
    /\ indexes_created
    /\ Reapable # {}
    /\ sessions_collection' =
          [sid \in (DOMAIN sessions_collection) \ Reapable |-> sessions_collection[sid]]
    /\ UNCHANGED <<now, mongoUp, moduleLoaded, fallbackDefined, IN_MEMORY_SESSIONS,
                   datasets_collection, session_dirs, pkl_files, csv_files, allocated,
                   indexes_created, resp, harnessVars, engineVars, threadVars>>

-----------------------------------------------------------------------------
(* The store's specification. *)

\* the translator harness while the store runs
HarnessIdle ==
    /\ nl_query = <<>>
    /\ schema_cols = <<>>
    /\ groq = [kind |-> "pending", content |-> <<>>]
    /\ sql_text = <<>>

\* how many worker threads serve POST /api/sql/query at the same time
MaxWorkers == 2

Workers == 1..MaxWorkers

\* a worker thread that serves no call
IdleCall ==
    [pc |-> "idle", sid |-> <<>>, query |-> <<>>, is_text |-> TRUE, use_api |-> FALSE,
     api_key |-> FALSE, remote |-> NoKey, df |-> [columns |-> <<>>, dtypes |-> <<>>, rows |-> <<>>], conn |-> 0, sql_query |-> <<>>,
     status |-> 0, result |-> EmptyDict]

\* no connection was opened and no call is in flight
EngineIdle ==
    /\ conns = EmptyDict
    /\ calls = [k \in Workers |-> IdleCall]

\* a worker thread that serves no request of the store
IdleThread ==
    [op |-> "none", todo |-> <<>>, sid |-> <<>>, file |-> IdleCall.df, filename |-> "",
     data |-> IdleCall.df, df |-> IdleCall.df, partial |-> EmptyDict,
     found |-> [md |-> EmptyDict, none |-> TRUE], saving |-> EmptyDict,
     existing |-> FALSE, dumped |-> FALSE, status |-> 0]

\* no request of the store is in flight, UPLOAD_FOLDER is empty and no
\* session id has two documents
ThreadsIdle ==
    /\ threads = [k \in Workers |-> IdleThread]
    /\ upload_folder = EmptyDict
    /\ twin_documents = <<>>

\* The import of backend/database/mongodb.py (lines 10-36).  If
\* pymongo.MongoClient raises, IN_MEMORY_SESSIONS is created and `db` is not,
\* so line 23 raises NameError and the import, with it the process, fails.
\* Otherwise the module loads without IN_MEMORY_SESSIONS, and the indexes
\* exist if MongoDB answered the create_index calls.
Init ==
    /\ now = 0
    /\ \E client_raised \in BOOLEAN :
          /\ fallbackDefined = client_raised
          /\ moduleLoaded = ~client_raised
          /\ \E up \in BOOLEAN :
                /\ mongoUp = up
                /\ indexes_created = (up /\ ~client_raised)
    /\ IN_MEMORY_SESSIONS = EmptyDict
    /\ sessions_collection = EmptyDict
    /\ datasets_collection = EmptyDict
    /\ session_dirs = {}
    /\ pkl_files = EmptyDict
    /\ csv_files = EmptyDict
    /\ allocated = {}
    /\ resp = [op |-> "none", sid |-> <<>>, t |-> 0, status |-> 0, body |-> EmptyDict]
    /\ HarnessIdle
    /\ EngineIdle
    /\ ThreadsIdle

\* the ids clients use against the store while the clock and MongoDB move
StoreIds == {sid \in SessionIds : ~IsSample(sid)}

Next ==
    \/ create_new_session
    \/ \E sid \in StoreIds : get_session_info(sid)
    \/ \E sid \in StoreIds, data \in ClientPartials : update_session_metadata_route(sid, data)
    \/ \E sid \in StoreIds, df \in Uploads, f \in Filenames : upload_file_to_session(sid, df, f)
    \/ \E df \in Uploads, f \in Filenames : upload_dataset(df, f)
    \/ \E sid \in StoreIds : remove_session(sid)
    \/ \E sid \in StoreIds : get_session_data_route(sid)
    \/ \E sid \in StoreIds : get_session_metadata_route(sid)
    \/ \E sid \in StoreIds : preprocessing_route(sid, "missing_values")
    \/ Tick
    \/ MongoFails
    \/ MongoRecovers
    \/ TTLMonitor

Spec == Init /\ [][Next]_vars

-----------------------------------------------------------------------------
(* The query pipeline's specification: sessions are created, provisioned   *)
(* and loaded, and queried through the SQL routes, while the clock stands   *)
(* and MongoDB stays as it started.                                         *)

NextSQL ==
    \/ create_new_session
    \/ \E sid \in SessionIds : get_session_info(sid)
    \/ \E sid \in SessionIds, df \in Uploads, f \in Filenames : upload_file_to_session(sid, df, f)
    \/ \E sid \in SessionIds : remove_session(sid)
    \/ \E sid \in SessionIds, q \in ClientQueries : execute_sql(sid, q)
    \/ \E sid \in SessionIds, rq \in NLRequests :
          translate_natural_language(sid, rq.query, rq.use_api, rq.remote)
    \/ \E sid \in SessionIds, rq \in NLRequests :
          query_with_natural_language(sid, rq.query, rq.use_api, rq.remote)

SpecSQL == Init /\ [][NextSQL]_vars

-----------------------------------------------------------------------------
(* The translator's specification: a request and a schema are drawn, and    *)
(* the request is translated once, by the rules or through the remote      *)
(* service; the store stands still.                                         *)

\* the words requests are made of
Words ==
    { <<"a","v","e","r","a","g","e">>, <<"s","a","l","a","r","y">>, <<"a","g","e">>,
      <<"T","o","t","a","l">>, <<"c","o","u","n","t">>, <<"s","h","o","w">>,
      <<"w","h","e","r","e">> }

\* the most words in a request
MaxWords == 2

\* the column names schemas are made of
ColumnPool == { <<"a","g","e">>, <<"s","a","l","a","r","y">>, <<"i","t","e","m">> }

\* the most columns in a schema
MaxCols == 2

\* the words of ws with one space between them
RECURSIVE JoinWords(_)
JoinWords(ws) ==
    IF Len(ws) = 1 THEN ws[1] ELSE ws[1] \o <<" ">> \o JoinWords(Tail(ws))

\* the requests: one to MaxWords words
Requests == {JoinWords(ws) : ws \in UNION {[1..n -> Words] : n \in 1..MaxWords}}

\* the schemas: one to MaxCols distinct column names (a table has at least
\* one column, and PRAGMA table_info lists no name twice)
Schemas ==
    {cols \in UNION {[1..n -> ColumnPool] : n \in 1..MaxCols} :
        \A i, j \in DOMAIN cols : i # j => cols[i] # cols[j]}

\* how a call of the remote service can end
RemoteOutcomes ==
    { NoKey, Non200, FencedCount,
      [kind |-> "exception", content |-> <<>>],
      [kind |-> "malformed", content |-> <<>>] }

InitNL ==
    /\ now = 0
    /\ mongoUp = TRUE
    /\ moduleLoaded = TRUE
    /\ fallbackDefined = FALSE
    /\ indexes_created = TRUE
    /\ IN_MEMORY_SESSIONS = EmptyDict
    /\ sessions_collection = EmptyDict
    /\ datasets_collection = EmptyDict
    /\ session_dirs = {}
    /\ pkl_files = EmptyDict
    /\ csv_files = EmptyDict
    /\ allocated = {}
    /\ resp = [op |-> "none", sid |-> <<>>, t |-> 0, status |-> 0, body |-> EmptyDict]
    /\ nl_query \in Requests
    /\ schema_cols \in Schemas
    /\ groq = [kind |-> "pending", content |-> <<>>]
    /\ sql_text = <<>>
    /\ EngineIdle
    /\ ThreadsIdle

\* assistant.natural_language_to_sql(nl_query) on the schema
TranslateByRules ==
    /\ groq.kind = "pending"
    /\ groq' = [kind |-> "not_used", content |-> <<>>]
    /\ sql_text' = natural_language_to_sql(nl_query, schema_cols)
    /\ UNCHANGED <<storeVars, nl_query, schema_cols, engineVars, threadVars>>

\* assistant.natural_language_to_sql_with_groq(nl_query) on the schema, with
\* the remote service ending as `remote`
TranslateWithGroq(remote) ==
    /\ groq.kind = "pending"
    /\ groq' = remote
    /\ sql_text' = natural_language_to_sql_with_groq(nl_query, schema_cols, remote)
    /\ UNCHANGED <<storeVars, nl_query, schema_cols, engineVars, threadVars>>

NextNL ==
    \/ TranslateByRules
    \/ \E remote \in RemoteOutcomes : TranslateWithGroq(remote)

SpecNL == InitNL /\ [][NextNL]_vars

-----------------------------------------------------------------------------
(* Properties of the session store. *)

\* the stored metadata of a session, {} when the collection has no document
StoredMetadata(sid) ==
    IF sid \in DOMAIN sessions_collection THEN sessions_collection[sid].metadata ELSE EmptyDict

\* the routes that look a session up before they act
SessionRoutes ==
    {"get_session_info", "upload_file_to_session", "update_session_metadata_route",
     "get_session_data_route", "get_session_metadata_route", "preprocessing_route"}

\* C1: a session created while MongoDB is unreachable is kept by the
\* fallback map, so a GetSession on it in the same process, made before the
\* session can expire, finds it.
C1_OutageSessionIsServed ==
    ( /\ resp.op = "get_session_info"
      /\ resp.sid \in allocated
      /\ resp.sid \notin DOMAIN sessions_collection
      /\ now < SESSION_TTL_DAYS )
    => resp.status = 200

\* C2: a request made on a session whose stored expires_at is earlier than
\* the clock is not answered as if the session were found.
C2_ExpiredIsNotFound ==
    [][\A sid \in DOMAIN sessions_collection :
          ( /\ sessions_collection[sid].expires_at < now
            /\ resp' # resp
            /\ resp'.sid = sid
            /\ resp'.op \in SessionRoutes )
          => resp'.status # 200]_vars

\* C3: of two successive successful GetSession calls on one session, the
\* second made later than the first, the second returns the greater expires_at.
C3_RenewalIncreases ==
    [][( /\ resp.op = "get_session_info" /\ resp.status = 200
         /\ resp'.op = "get_session_info" /\ resp'.status = 200
         /\ resp'.sid = resp.sid
         /\ resp.t < resp'.t )
       => resp'.body.session.expires_at > resp.body.session.expires_at]_vars

\* C4: between operations, the metadata of a session says has_data exactly
\* when the session's data.pkl is on disk.
C4_HasDataIffSnapshot ==
    \A sid \in DOMAIN sessions_collection :
        DictGet(StoredMetadata(sid), "has_data", FALSE) = (sid \in DOMAIN pkl_files)

\* the state HasData: has_data is set, the fields of the attached dataset
\* are stored, and the snapshot is on disk
HasData(sid) ==
    /\ DictGet(StoredMetadata(sid), "has_data", FALSE)
    /\ {"filename", "rows", "columns", "column_names", "dtypes"} \subseteq DOMAIN StoredMetadata(sid)
    /\ sid \in DOMAIN pkl_files

\* C5: a session in HasData is still in HasData after a metadata update and
\* after a preprocessing step that the server answered with success, MongoDB
\* being reachable.
C5_HasDataStays ==
    [][\A sid \in StoreIds :
          ( /\ mongoUp
            /\ HasData(sid)
            /\ resp' # resp
            /\ resp'.sid = sid
            /\ resp'.op \in {"update_session_metadata_route", "preprocessing_route"}
            /\ resp'.status = 200 )
          => HasData(sid)']_vars

-----------------------------------------------------------------------------
(* Properties of the query pipeline. *)

\* the request "what is the average salary"
AverageSalaryRequest ==
    <<"w","h","a","t"," ","i","s"," ","t","h","e"," ","a","v","e","r","a","g","e"," ","s","a","l","a","r","y">>

\* SELECT AVG(salary) as average_salary FROM user_data
AverageSalaryText == Lit.avg_salary \o table_name

\* the mean of the salary column of SAMPLE_DATA, as the engine returns it
SampleSalaryMean ==
    Aggregate(Sql.avg, connect_to_sqlite_memory(SAMPLE_DATA).table, 2, SAMPLE_DATA.rows)

\* C6: "what is the average salary" on a session that holds the sample
\* dataset is answered with the text SELECT AVG(salary) as average_salary
\* FROM user_data and one row, the mean of the salary column.
C6_AverageSalaryOfSample ==
    ( /\ resp.op = "query_with_natural_language"
      /\ IsSample(resp.sid)
      /\ resp.status = 200
      /\ resp.body.natural_language = AverageSalaryRequest )
    => /\ resp.body.sql_query = AverageSalaryText
       /\ resp.body.rows = << <<SampleSalaryMean>> >>

\* what the engine answers to `text` on the dataset of session sid
EngineResult(sid, text) ==
    execute_query(connect_to_sqlite_memory(ConvertNumericColumns(pkl_files[sid])).table, text)

\* C10: a query text the engine rejects is not answered with success: a 200
\* response of POST /api/sql/execute carries no error, and the text a 200
\* response of POST /api/sql/query reports is one the engine executes.
C10_EngineErrorIsBadRequest ==
    /\ (resp.op = "execute_sql" /\ resp.status = 200) => "error" \notin DOMAIN resp.body
    /\ (resp.op = "query_with_natural_language" /\ resp.status = 200)
          => "error" \notin DOMAIN EngineResult(resp.sid, resp.body.sql_query)

-----------------------------------------------------------------------------
(* Properties of the translator. *)

\* the request as the matcher reads it
Normalized == Strip(LowerText(nl_query))

\* the keywords of the if/elif chain, and those of the age and salary rules
ChainKeywords ==
    {Lit.kw_average, Lit.kw_avg, Lit.kw_mean, Lit.kw_sum, Lit.kw_total, Lit.kw_count,
     Lit.kw_maximum, Lit.kw_max, Lit.kw_minimum, Lit.kw_min, Lit.kw_group_by,
     Lit.kw_grouped_by, Lit.kw_where}

ShortcutKeywords == {Lit.kw_age, Lit.kw_salary}

NoKeywordMatched ==
    \A k \in ChainKeywords \cup ShortcutKeywords : ~Contains(Normalized, k)

NoColumnFound == ColumnHits(Normalized, schema_cols) = {}

AverageAsked == \E k \in {Lit.kw_average, Lit.kw_avg, Lit.kw_mean} : Contains(Normalized, k)

\* the first tokens of a text are SELECT AVG ( col )
AveragesColumn(text, col) ==
    LET first(t) ==
            /\ Len(t) >= 5
            /\ IsKw(t[1], Sql.select) /\ IsKw(t[2], Sql.avg)
            /\ t[3] = <<"(">> /\ t[4] = col /\ t[5] = <<")">>
    IN  first(Tokens(text))

\* C7: on every schema with a column salary, the matcher translates
\* "average salary" to a query of the average of the column salary.
C7_AverageSalaryOnEverySchema ==
    ( /\ groq.kind = "not_used"
      /\ nl_query = Lit.kw_average_salary
      /\ Lit.kw_salary \in Range(schema_cols) )
    => AveragesColumn(sql_text, Lit.kw_salary)

\* C8, as stated: the matcher returns a text that is not empty, and the
\* default both when no keyword occurs in the request and when a keyword
\* occurs but no column name does.
C8_DefaultWithoutColumn ==
    groq.kind = "not_used"
    => /\ sql_text # <<>>
       /\ (NoKeywordMatched \/ NoColumnFound) => sql_text = DefaultText

\* C8, amended: the matcher returns a text that is not empty; it returns the
\* default when no keyword occurs in the request, when an average keyword
\* occurs and no column name does, when no column name, no "count" and
\* neither "age" nor "salary" occurs, and whenever the chain, the age rules
\* and the salary rules all leave the query empty.
C8_MatcherNeverFails ==
    groq.kind = "not_used"
    => /\ sql_text # <<>>
       /\ sql_text # NoneText
       /\ NoKeywordMatched => sql_text = DefaultText
       /\ (NoColumnFound /\ AverageAsked) => sql_text = DefaultText
       /\ ( /\ NoColumnFound
            /\ ~Contains(Normalized, Lit.kw_count)
            /\ \A k \in ShortcutKeywords : ~Contains(Normalized, k) )
          => sql_text = DefaultText
       /\ ( /\ KeywordRules(Normalized, schema_cols) = <<>>
            /\ AgeRules(Normalized, <<>>) = <<>>
            /\ SalaryRules(Normalized, <<>>) = <<>> )
          => sql_text = DefaultText

\* a request with a keyword and without a column name has been answered
\* with the default
C8_DefaultReturned ==
    /\ groq.kind = "not_used"
    /\ ~NoKeywordMatched
    /\ NoColumnFound
    /\ sql_text = DefaultText

\* the ways the remote path fails
RemoteFailures == {"no_key", "exception", "non200", "malformed"}

\* C9: when the remote path fails, the translator returns the text the
\* matcher returns for the same request and schema, which is neither empty
\* nor None.
C9_FallbackEqualsRules ==
    groq.kind \in RemoteFailures
    => /\ sql_text = natural_language_to_sql(nl_query, schema_cols)
       /\ sql_text # <<>>
       /\ sql_text # NoneText

\* a failed remote call has been answered with a query a rule produced
C9_FallbackTaken ==
    /\ groq.kind \in RemoteFailures \ {"no_key"}
    /\ sql_text = natural_language_to_sql(nl_query, schema_cols)
    /\ sql_text # DefaultText

-----------------------------------------------------------------------------
(* Properties of the executor. *)

\* C11: on every loaded dataset and every query text, execute_query returns
\* a dict, either a result set or {'error': message} without columns and
\* rows; a text with an unmatched parenthesis gets the error dict, which
\* POST /api/sql/execute answers 400 with that message, not 500.
C11_ExecutorReturnsError ==
    [][\A sid \in SessionIds, q \in ClientQueries :
          LET unbalanced ==
                  Cardinality({i \in DOMAIN q : q[i] = "("}) #
                      Cardinality({i \in DOMAIN q : q[i] = ")"})
              checked(result) ==
                  /\ DOMAIN result \in {{"error"}, {"columns", "rows", "row_count"}}
                  /\ unbalanced =>
                        /\ DOMAIN result = {"error"}
                        /\ resp'.status = 400
                        /\ resp'.body = [error |-> result.error]
              connected(c) == c.ok => checked(execute_query(c.table, q))
              loaded(r) == r.exc = "none" => connected(connect_to_sqlite_memory(r.val))
          IN  execute_sql(sid, q) => loaded(get_session_data(World, sid))]_vars

\* a text with an unmatched parenthesis has been answered 400
C11_MalformedAnswered ==
    /\ resp.op = "execute_sql"
    /\ resp.status = 400
    /\ resp.body = [error |-> "syntax error"]

-----------------------------------------------------------------------------
(* Properties of the error mapping of the session routes. *)

\* C12: GetSession, the metadata read, the metadata update and the data read
\* answer a session that no tier holds with not-found (404), never with an
\* internal error.
C12_AbsentIsNotFound ==
    [][\A sid \in StoreIds :
          ( /\ sid \notin DOMAIN sessions_collection
            /\ sid \notin DOMAIN IN_MEMORY_SESSIONS
            /\ \/ get_session_info(sid)
               \/ get_session_metadata_route(sid)
               \/ get_session_data_route(sid)
               \/ \E data \in ClientPartials : update_session_metadata_route(sid, data) )
          => resp'.status = 404]_vars

-----------------------------------------------------------------------------
(* The metadata routes on every session id, the "sample-" ids included. *)

NextMeta ==
    \/ create_new_session
    \/ \E sid \in SessionIds, data \in ClientPartials : update_session_metadata_route(sid, data)
    \/ \E sid \in SessionIds : get_session_metadata_route(sid)
    \/ Tick
    \/ MongoFails
    \/ MongoRecovers

SpecMeta == Init /\ [][NextMeta]_vars

\* C13: PUT metadata on a session that the tier serving the request holds
\* sets exactly the keys of the partial map and updated_at and leaves every
\* other key of the stored map, and every other session, as it was; on a
\* session no tier holds it fails and writes to no tier.
C13_UpdateOrNotFound ==
    [][\A sid \in SessionIds, data \in ClientPartials :
          LET held == \/ mongoUp /\ sid \in DOMAIN sessions_collection
                      \/ sid \in DOMAIN IN_MEMORY_SESSIONS
              merged(old, new) ==
                  /\ DOMAIN new = (DOMAIN old) \cup (DOMAIN data) \cup {"updated_at"}
                  /\ \A k \in DOMAIN data : new[k] = data[k]
                  /\ new["updated_at"] = now
                  /\ \A k \in (DOMAIN old) \ ((DOMAIN data) \cup {"updated_at"}) :
                        new[k] = old[k]
          IN  update_session_metadata_route(sid, data) =>
                 IF held
                 THEN /\ resp'.status = 200
                      /\ sid \in DOMAIN sessions_collection'
                      /\ merged(StoredMetadata(sid), sessions_collection'[sid].metadata)
                      /\ resp'.body.metadata = sessions_collection'[sid].metadata
                      /\ \A other \in (DOMAIN sessions_collection) \ {sid} :
                            /\ other \in DOMAIN sessions_collection'
                            /\ sessions_collection'[other] = sessions_collection[other]
                 ELSE /\ resp'.status # 200
                      /\ "error" \in DOMAIN resp'.body
                      /\ sessions_collection' = sessions_collection
                      /\ IN_MEMORY_SESSIONS' = IN_MEMORY_SESSIONS]_vars

-----------------------------------------------------------------------------
(* Properties of the snapshot of an attached dataset. *)

\* C14: after a dataset was attached to a session (the upload was answered
\* with success), a load of the session returns a dataset with the row count,
\* the column count and the column names, in order, of the attached one, and
\* the stored metadata holds the same rows, columns and column_names.
C14_LoadReturnsAttached ==
    [][\A sid \in SessionIds, df \in Uploads, f \in Filenames :
          LET same(loaded, metadata) ==
                  /\ loaded.exc = "none"
                  /\ Len(loaded.val.rows) = Len(df.rows)
                  /\ Len(loaded.val.columns) = Len(df.columns)
                  /\ loaded.val.columns = df.columns
                  /\ DictGet(metadata, "rows", -1) = Len(df.rows)
                  /\ DictGet(metadata, "columns", -1) = Len(df.columns)
                  /\ DictGet(metadata, "column_names", <<>>) = df.columns
          IN  (upload_file_to_session(sid, df, f) /\ resp'.status = 200)
                 => same((get_session_data(World, sid))', (StoredMetadata(sid))')]_vars

-----------------------------------------------------------------------------
(* The snapshot files under faults of the disk. *)

\* a snapshot file of the session is removed from the session directory
SnapshotLost(sid, name) ==
    /\ PathExists(World, SessionPath(sid, name))
    /\ IF name = "data.pkl"
       THEN /\ pkl_files' = [x \in (DOMAIN pkl_files) \ {sid} |-> pkl_files[x]]
            /\ UNCHANGED csv_files
       ELSE /\ csv_files' = [x \in (DOMAIN csv_files) \ {sid} |-> csv_files[x]]
            /\ UNCHANGED pkl_files
    /\ UNCHANGED <<now, mongoUp, moduleLoaded, fallbackDefined, IN_MEMORY_SESSIONS,
                   sessions_collection, datasets_collection, session_dirs, allocated,
                   indexes_created, resp, harnessVars, engineVars, threadVars>>

\* the bytes of data.pkl are damaged: pickle.load raises on them
SnapshotDamaged(sid) ==
    /\ sid \in DOMAIN pkl_files
    /\ Loadable(pkl_files[sid])
    /\ pkl_files' = [pkl_files EXCEPT ![sid] = Damaged]
    /\ UNCHANGED <<now, mongoUp, moduleLoaded, fallbackDefined, IN_MEMORY_SESSIONS,
                   sessions_collection, datasets_collection, session_dirs, csv_files,
                   allocated, indexes_created, resp, harnessVars, engineVars, threadVars>>

NextDisk ==
    \/ \E df \in Uploads, f \in Filenames : upload_dataset(df, f)
    \/ \E sid \in SessionIds, df \in Uploads, f \in Filenames : upload_file_to_session(sid, df, f)
    \/ \E sid \in SessionIds : get_session_data_route(sid)
    \/ \E sid \in SessionIds, name \in {"data.pkl", "data.csv"} : SnapshotLost(sid, name)
    \/ \E sid \in SessionIds : SnapshotDamaged(sid)

SpecDisk == Init /\ [][NextDisk]_vars

\* C15: the load of a session that has data succeeds whenever one of the two
\* snapshots can be read: the binary snapshot is taken if pickle.load reads
\* it, and the text snapshot is taken both when the binary snapshot is
\* unreadable and when it is absent.
C15_LoadFallsBack ==
    [][\A sid \in SessionIds :
          LET binary == sid \in DOMAIN pkl_files /\ Loadable(pkl_files[sid])
              text == sid \in DOMAIN csv_files
          IN  ( /\ get_session_data_route(sid)
                /\ mongoUp
                /\ DictGet(StoredMetadata(sid), "has_data", FALSE)
                /\ binary \/ text )
              => /\ resp'.status = 200
                 /\ resp'.body.total_rows =
                       IF binary THEN Len(pkl_files[sid].rows) ELSE Len(csv_files[sid].rows)]_vars

-----------------------------------------------------------------------------
(* Deletion, with sessions that were uploaded to more than once. *)

\* the names of the files a client uploads to one session
UploadNames == {"data.csv", "stock.csv"}

NextDelete ==
    \/ \E df \in Uploads, f \in UploadNames : upload_dataset(df, f)
    \/ \E sid \in SessionIds, df \in Uploads, f \in UploadNames :
          upload_file_to_session(sid, df, f)
    \/ \E sid \in SessionIds : remove_session(sid)
    \/ \E sid \in SessionIds : get_session_info(sid)
    \/ \E sid \in SessionIds, q \in ClientQueries : execute_sql(sid, q)

SpecDelete == Init /\ [][NextDelete]_vars

\* C16: DELETE of a session succeeds and leaves no snapshot directory; a
\* DELETE that follows a DELETE of the same session leaves the store as the
\* first one left it; a query on the session that follows its DELETE is
\* answered not found.
C16_DeleteIsIdempotent ==
    [][\A sid \in StoreIds :
          LET just_deleted == resp.op = "remove_session" /\ resp.sid = sid
          IN  /\ remove_session(sid) =>
                    /\ resp'.status = 200
                    /\ sid \notin session_dirs'
                    /\ sid \notin DOMAIN pkl_files' /\ sid \notin DOMAIN csv_files'
                    /\ just_deleted =>
                          UNCHANGED <<sessions_collection, IN_MEMORY_SESSIONS,
                                      datasets_collection, session_dirs, pkl_files,
                                      csv_files>>
              /\ \A q \in ClientQueries :
                    (just_deleted /\ execute_sql(sid, q)) => resp'.status = 404]_vars

-----------------------------------------------------------------------------
(* POST /api/sql/query served by several worker threads.  A call is run in  *)
(* the steps between which another thread can run: the load of the dataset, *)
(* SQLAssistant() with connect_to_sqlite_memory, the translation (with the  *)
(* wait for the remote service when it is used), and execute_query with     *)
(* close_connection and the return.                                         *)

\* the frames uploaded: the inventory, and a frame whose column names are
\* distinct and whose sanitised names are not
EngineUploads ==
    Uploads \cup
    { [columns |-> << <<"a", " ", "b">>, <<"a", "_", "b">> >>,
       dtypes |-> <<"int64", "int64">>,
       rows |-> << <<1, 2>> >>] }

\* the bodies of the calls: a text for the rule-based matcher, the same text
\* for the remote service, and the JSON number 7 in place of a text
EngineRequests ==
    { [query |-> <<"s","h","o","w"," ","t","h","e"," ","r","o","w","s">>,
       is_text |-> TRUE, use_api |-> FALSE, api_key |-> FALSE],
      [query |-> <<"s","h","o","w"," ","t","h","e"," ","r","o","w","s">>,
       is_text |-> TRUE, use_api |-> TRUE, api_key |-> TRUE],
      [query |-> <<"7">>, is_text |-> FALSE, use_api |-> FALSE, api_key |-> FALSE] }

\* the connection object of one thread's assistant (the variant the
\* isolation property is tested against: one connection for all threads)
SharedConnection(cs) == 1

\* sqlite3.connect(':memory:'): a new connection to a new, private database
NewConnection(cs) == Cardinality(DOMAIN cs) + 1

\* a connection after close(): the in-memory database is gone
ClosedConnection ==
    [open |-> FALSE, table |-> [columns |-> <<>>, types |-> <<>>, rows |-> <<>>]]

\* nl_query.lower() on a value that is not a str
AttributeError == Err("'int' object has no attribute 'lower'")

\* what a step of a call after the load leaves as it is: the store
StoreUnchanged ==
    UNCHANGED <<now, mongoUp, moduleLoaded, fallbackDefined, indexes_created, allocated,
                resp, harnessVars, IN_MEMORY_SESSIONS, sessions_collection,
                datasets_collection, session_dirs, pkl_files, csv_files, threadVars>>

\* the call returns result, which query_with_natural_language answers with
\* 400 if it has the key 'error' and with 200 otherwise
Returned(call, result) ==
    [call EXCEPT !.pc = "done", !.result = result,
                 !.status = IF "error" \in DOMAIN result THEN 400 ELSE 200]

\* sql_routes.py lines 103-116: the body is read and the dataset loaded
Receive(k, sid, rq) ==
    /\ moduleLoaded
    /\ calls[k].pc = "idle"
    /\ LET call == [IdleCall EXCEPT !.sid = sid, !.query = rq.query,
                                    !.is_text = rq.is_text, !.use_api = rq.use_api,
                                    !.api_key = rq.api_key]
           loaded(r) ==
               /\ Commit(r.w)
               /\ calls' = [calls EXCEPT ![k] =
                     IF r.exc # "none"
                     THEN [call EXCEPT !.pc = "done", !.status = 404,
                                       !.result = Err("Session not found or no dataset loaded")]
                     ELSE [call EXCEPT !.pc = "loaded", !.df = r.val]]
       IN  loaded(get_session_data(World, sid))
    /\ UNCHANGED <<now, mongoUp, moduleLoaded, fallbackDefined, indexes_created, allocated,
                   resp, harnessVars, conns, threadVars>>

\* sql_service.py lines 337-355: the numeric conversion, SQLAssistant() and
\* connect_to_sqlite_memory, which opens the connection before it writes the
\* frame; when the write fails the call returns the error dict
Connect(k) ==
    /\ calls[k].pc = "loaded"
    /\ LET opened(c, id) ==
               /\ conns' = Put(conns, id, [open |-> TRUE, table |-> c.table])
               /\ calls' = [calls EXCEPT ![k] =
                     IF c.ok
                     THEN [@ EXCEPT !.pc = "connected", !.conn = id]
                     ELSE Returned([@ EXCEPT !.conn = id],
                                   Err("Failed to create SQL database from dataset"))]
       IN  opened(connect_to_sqlite_memory(ConvertNumericColumns(calls[k].df)),
                  NewConnection(conns))
    /\ StoreUnchanged

\* sql_service.py lines 357-361: the rule-based matcher, or requests.post to
\* the remote service, which is sent without a timeout; an exception of the
\* matcher is caught at lines 376-378, where the call returns
Translate(k) ==
    /\ calls[k].pc = "connected"
    /\ calls' = [calls EXCEPT ![k] =
          IF @.use_api /\ @.api_key
          THEN [@ EXCEPT !.pc = "waiting"]
          ELSE IF ~@.is_text
          THEN Returned(@, AttributeError)
          ELSE [@ EXCEPT !.pc = "translated",
                         !.sql_query = natural_language_to_sql(
                                          calls[k].query,
                                          conns[calls[k].conn].table.columns)]]
    /\ UNCHANGED conns
    /\ StoreUnchanged

\* the remote service answers (or the connection to it breaks):
\* requests.post returns or raises, and the translation ends
RemoteAnswers(k, remote) ==
    /\ calls[k].pc = "waiting"
    /\ calls' = [calls EXCEPT ![k] =
          IF remote.kind # "ok" /\ ~@.is_text
          THEN Returned(@, AttributeError)
          ELSE [@ EXCEPT !.pc = "translated", !.remote = remote,
                         !.sql_query = natural_language_to_sql_with_groq(
                                          calls[k].query,
                                          conns[calls[k].conn].table.columns, remote)]]
    /\ UNCHANGED conns
    /\ StoreUnchanged

\* sql_service.py lines 363-374: execute_query, close_connection, return
Finish(k) ==
    /\ calls[k].pc = "translated"
    /\ calls' = [calls EXCEPT ![k] =
          Returned(@, [natural_language |-> @.query, sql |-> @.sql_query,
                       results |-> execute_query(conns[@.conn].table, @.sql_query)])]
    /\ conns' = [conns EXCEPT ![calls[k].conn] = ClosedConnection]
    /\ StoreUnchanged

\* the interpreter frees an assistant no thread refers to, and with it
\* closes a connection that was left open; when it does so is up to the
\* interpreter
Collect(c) ==
    /\ c \in DOMAIN conns
    /\ conns[c].open
    /\ \A k \in Workers : calls[k].conn = c => calls[k].pc = "done"
    /\ conns' = [conns EXCEPT ![c] = ClosedConnection]
    /\ UNCHANGED calls
    /\ StoreUnchanged

NextEngine ==
    \/ \E df \in EngineUploads, f \in Filenames : upload_dataset(df, f)
    \/ \E k \in Workers, sid \in SessionIds, rq \in EngineRequests : Receive(k, sid, rq)
    \/ \E k \in Workers : Connect(k)
    \/ \E k \in Workers : Translate(k)
    \/ \E k \in Workers, remote \in {Non200, FencedCount} : RemoteAnswers(k, remote)
    \/ \E k \in Workers : Finish(k)
    \/ \E c \in DOMAIN conns : Collect(c)

SpecEngine == Init /\ [][NextEngine]_vars

\* The threads run: a thread that can take a step of its own takes it.
\* Connect(k) and Finish(k) are enabled exactly when thread k is at "loaded"
\* and at "translated" and each leaves that position, so their weak fairness
\* is that the thread is not at one of these positions for ever.  The remote
\* service is not bound to answer: RemoteAnswers has no fairness.
SpecEngineFair ==
    /\ SpecEngine
    /\ \A k \in Workers :
          /\ WF_vars(Translate(k))
          /\ []<>(calls[k].pc # "loaded")
          /\ []<>(calls[k].pc # "translated")

-----------------------------------------------------------------------------
(* Properties of the calls in flight. *)

\* C17: a RunNaturalLanguageQuery call that ran the engine returns, under
\* every interleaving with the call of the other thread, the result (text,
\* columns, rows and row count) it returns when it runs alone: the result of
\* execute_sql_from_natural_language on the dataset of its own session.
C17_CallsDoNotObserveEachOther ==
    \A k \in Workers :
        LET alone(call) ==
                IF /\ ~call.is_text
                   /\ connect_to_sqlite_memory(ConvertNumericColumns(pkl_files[call.sid])).ok
                THEN AttributeError
                ELSE execute_sql_from_natural_language(pkl_files[call.sid], call.query,
                                                       call.use_api, call.remote)
            same(call, result) ==
                /\ call.result = result
                /\ call.status = IF "error" \in DOMAIN result THEN 400 ELSE 200
        IN  (calls[k].pc = "done" /\ calls[k].status # 404) =>
                same(calls[k], alone(calls[k]))

\* thread 1 has returned rows of its session; it connected after thread 2,
\* which works on the other session and has not returned yet
C17_ReturnedWhileOtherInFlight ==
    /\ calls[1].pc = "done"
    /\ calls[1].status = 200
    /\ calls[1].result.results.row_count > 0
    /\ calls[1].conn = 2
    /\ calls[2].conn = 1
    /\ calls[2].pc \in {"connected", "waiting", "translated"}
    /\ calls[1].sid # calls[2].sid

\* C19: when a query call has returned, the connection it opened is closed.
C19_ClosedOnReturn ==
    \A k \in Workers :
        (calls[k].pc = "done" /\ calls[k].conn # 0) => ~conns[calls[k].conn].open

\* C20: a call that waits for the remote service returns.
C20_RemotePathReturns ==
    \A k \in Workers : (calls[k].pc = "waiting") ~> (calls[k].pc = "done")

-----------------------------------------------------------------------------
(* Properties of new sessions. *)

\* C18: POST /api/sessions always answers with an id that was not handed out
\* before, also when MongoDB is unreachable; when the record was written,
\* GetSession returns the session with has_data false and the load of its
\* dataset fails with "No data associated", which every query route reports
\* (404) for as long as the session has no dataset.
C18_NewSessionIsCreated ==
    [][/\ create_new_session => resp'.status = 201
       /\ \A sid \in SessionIds :
             LET created(session, data) ==
                     /\ sid \notin allocated
                     /\ sid \in allocated'
                     /\ mongoUp =>
                           /\ session.exc = "none"
                           /\ session.val.id = sid
                           /\ session.val.has_data = FALSE
                           /\ data.exc = "ValueError"
             IN  (create_new_session /\ resp'.body.session_id = sid) =>
                    created((get_session(World, sid))', (get_session_data(World, sid))')
       /\ \A sid \in StoreIds :
             ( /\ mongoUp
               /\ sid \in DOMAIN sessions_collection
               /\ DictGet(StoredMetadata(sid), "has_data", TRUE) = FALSE
               /\ \/ \E q \in ClientQueries : execute_sql(sid, q)
                  \/ \E rq \in NLRequests :
                        \/ translate_natural_language(sid, rq.query, rq.use_api, rq.remote)
                        \/ query_with_natural_language(sid, rq.query, rq.use_api,
                                                       rq.remote) )
             => /\ resp'.status = 404
                /\ UNCHANGED <<pkl_files, csv_files, datasets_collection>>]_vars

\* a query on a session that was created and has no dataset was answered
C18_QueryOnCreated ==
    /\ resp.op \in {"execute_sql", "translate_natural_language", "query_with_natural_language"}
    /\ resp.sid \in allocated
    /\ resp.sid \in DOMAIN sessions_collection
    /\ DictGet(StoredMetadata(resp.sid), "has_data", TRUE) = FALSE
    /\ resp.status = 404

-----------------------------------------------------------------------------
(* The two snapshot files of a session. *)

\* C23: every operation that writes the binary snapshot data.pkl of a session
\* writes the text snapshot data.csv from the same frame in the same
\* operation: after it the two files hold the same columns and rows.
C23_TextWrittenWithBinary ==
    [][\A sid \in SessionIds :
          LET written == /\ sid \in DOMAIN pkl_files'
                         /\ Loadable(pkl_files'[sid])
                         /\ sid \in DOMAIN pkl_files => pkl_files'[sid] # pkl_files[sid]
          IN  written => /\ sid \in DOMAIN csv_files'
                         /\ csv_files'[sid].columns = pkl_files'[sid].columns
                         /\ csv_files'[sid].rows = pkl_files'[sid].rows]_vars

-----------------------------------------------------------------------------
(* The precedence of the matcher's rules. *)

\* the keywords of the rules of the if/elif chain, in the order of the chain
RuleKeywords ==
    << {Lit.kw_average, Lit.kw_avg, Lit.kw_mean}, {Lit.kw_sum, Lit.kw_total}, {Lit.kw_count},
       {Lit.kw_maximum, Lit.kw_max}, {Lit.kw_minimum, Lit.kw_min},
       {Lit.kw_group_by, Lit.kw_grouped_by}, {Lit.kw_where} >>

\* the form of the query each rule of the chain writes
RuleShapes == <<"avg", "sum", "count", "max", "min", "group", "where">>

\* the texts the age rules and the salary rules write
ShortcutTexts ==
    {Lit.avg_age \o table_name, Lit.sum_age \o table_name, Lit.max_age \o table_name,
     Lit.min_age \o table_name, Lit.avg_salary \o table_name, Lit.sum_salary \o table_name,
     Lit.max_salary \o table_name, Lit.min_salary \o table_name,
     Lit.dept_salary \o table_name \o Lit.dept_order}

\* the rules of the chain whose keyword occurs in the request
RulesMatched(query) ==
    {r \in DOMAIN RuleKeywords : \E k \in RuleKeywords[r] : Contains(query, k)}

\* the form of a query text, read from its tokens
QueryShape(text) ==
    LET shape(t) ==
            IF Len(t) < 4 \/ ~IsKw(t[1], Sql.select) THEN "none"
            ELSE IF t[2] = <<"*">>
            THEN IF \E i \in DOMAIN t : IsKw(t[i], Sql.where) THEN "where" ELSE "default"
            ELSE IF t[3] = <<",">> THEN "group"
            ELSE IF IsKw(t[2], Sql.count) THEN "count"
            ELSE IF IsKw(t[2], Sql.avg) THEN "avg"
            ELSE IF IsKw(t[2], Sql.sum) THEN "sum"
            ELSE IF IsKw(t[2], Sql.max) THEN "max"
            ELSE IF IsKw(t[2], Sql.min) THEN "min"
            ELSE "none"
    IN  shape(Tokens(text))

\* the column a query text aggregates, groups by or filters on
QueryColumn(text) ==
    LET column(t) ==
            IF t[2] = <<"*">>
            THEN t[(CHOOSE i \in DOMAIN t : IsKw(t[i], Sql.where)) + 1]
            ELSE IF t[3] = <<",">> THEN t[2]
            ELSE t[4]
    IN  column(Tokens(text))

-----------------------------------------------------------------------------
(* The columns a rule-based query names. *)

\* C27: executed on a table of the schema the matcher read, the text the
\* matcher returns does not fail on an unknown column: every column it names
\* is a column of the table, also when the age and salary rules wrote it.
C27_NamesOnlySchemaColumns ==
    LET table(cols) == [columns |-> cols,
                        types |-> [j \in DOMAIN cols |-> "INTEGER"],
                        rows |-> << [j \in DOMAIN cols |-> j] >>]
    IN  groq.kind = "not_used"
           => execute_query(table(schema_cols), sql_text) # Err("no such column")

-----------------------------------------------------------------------------
(* How a failure to build the engine is answered. *)

\* C25: a call whose dataset could not be loaded into the engine
\* (connect_to_sqlite_memory returned False) is not answered with status
\* 400, the kind of answer a query text the engine rejects gets.
C25_EngineFailureIsDistinct ==
    \A k \in Workers :
        ( /\ calls[k].pc = "done"
          /\ calls[k].conn # 0
          /\ ~connect_to_sqlite_memory(ConvertNumericColumns(calls[k].df)).ok )
        => calls[k].status # 400

-----------------------------------------------------------------------------
(* Sessions whose id starts with "sample-". *)

\* C30: for an id that starts with "sample-", GetSession and the load of the
\* dataset are never answered not found; after them the snapshot holds the
\* 5 sample rows and the stored metadata says has_data; an upload to such an
\* id is answered with success and the uploaded frame is not stored.
C30_SampleIsProvisioned ==
    [][\A sid \in SessionIds :
          LET provisioned(pkl, metadata) ==
                  /\ sid \in DOMAIN pkl
                  /\ pkl[sid] = SAMPLE_DATA
                  /\ DictGet(metadata, "has_data", FALSE)
              accessed == \/ get_session_info(sid)
                          \/ \E q \in ClientQueries : execute_sql(sid, q)
              attached(df) == \E f \in Filenames : upload_file_to_session(sid, df, f)
          IN  IsSample(sid) =>
                 /\ accessed => /\ resp'.status # 404
                                /\ provisioned(pkl_files', (StoredMetadata(sid))')
                 /\ \A df \in Uploads :
                       attached(df) => /\ resp'.status = 200
                                       /\ provisioned(pkl_files', (StoredMetadata(sid))')
                                       /\ csv_files'[sid] # df]_vars

-----------------------------------------------------------------------------
(* The requests of the store served by several worker threads (the          *)
(* development server of Flask runs every request in a thread of its own).  *)
(* A request runs in the steps between which another thread can run: every  *)
(* call on a MongoDB collection and every call on a file is one step.       *)
(* threads[k].todo lists the steps thread k still has to take, the next one *)
(* first; a function that is called puts its steps in front.  The fields    *)
(* file, data, df, found, saving and existing are the locals of the thread: *)
(* the uploaded file, the frame the route parsed or computed, the frame the *)
(* service function writes, the result of get_session_metadata, and the     *)
(* argument and the find_one result of save_session_metadata.               *)

\* the files clients upload: the inventory, and its first row alone
UploadedFiles == Uploads \cup {[df EXCEPT !.rows = SubSeq(@, 1, 1)] : df \in Uploads}

\* the steps of save_session_metadata: find_one, then update_one or insert_one
SaveSteps == <<"save_find", "save_write">>

\* the steps that write the snapshots: open(df_path, 'wb'), pickle.dump with
\* the close of the file, df.to_csv
SnapshotSteps == <<"open", "dump", "to_csv">>

\* get_session(session_id), which is handle_sample_session for a sample id
SessionSteps(sid) == IF IsSample(sid) THEN <<"exists">> ELSE <<"get_session">>

\* add_session_data(session_id, df, filename), which is handle_sample_session
\* for a sample id
AttachSteps(sid) == IF IsSample(sid) THEN <<"exists">> ELSE <<"find_one", "attach">>

\* thread k is about to take `step`
At(k, step) == threads[k].todo # <<>> /\ Head(threads[k].todo) = step

\* what no step of a thread changes
ThreadEnvUnchanged ==
    UNCHANGED <<now, mongoUp, moduleLoaded, fallbackDefined, indexes_created, resp,
                harnessVars, engineVars>>

\* a step that changes only the locals of its thread
LocalStep ==
    /\ UNCHANGED <<IN_MEMORY_SESSIONS, sessions_collection, datasets_collection,
                   session_dirs, pkl_files, csv_files, allocated, upload_folder,
                   twin_documents>>
    /\ ThreadEnvUnchanged

\* the request ends with an exception that the handler answers with 500; the
\* upload handlers first remove the temporary file
Raise(t) ==
    IF t.op \in {"upload_file_to_session", "upload_dataset"}
    THEN [t EXCEPT !.todo = <<"cleanup">>]
    ELSE [t EXCEPT !.todo = <<>>, !.status = 500]

\* POST /api/sessions/<session_id>/upload arrives (dataset_routes.py lines
\* 284-344): get_session, file.save, pd.read_csv, add_session_data, os.remove,
\* get_session_metadata
ReceiveUpload(k, sid, file, filename) ==
    /\ moduleLoaded
    /\ threads[k].op = "none"
    /\ threads' = [threads EXCEPT ![k] =
          [IdleThread EXCEPT !.op = "upload_file_to_session", !.sid = sid, !.file = file,
                             !.filename = filename,
                             !.todo = SessionSteps(sid) \o <<"file_save", "read_file">>
                                        \o AttachSteps(sid) \o <<"os_remove", "respond">>]]
    /\ LocalStep

\* POST /api/dataset/upload arrives (dataset_routes.py lines 27-80):
\* create_session, file.save, pd.read_csv, add_session_data, os.remove,
\* get_session_metadata
ReceiveDataset(k, file, filename) ==
    /\ moduleLoaded
    /\ threads[k].op = "none"
    /\ threads' = [threads EXCEPT ![k] =
          [IdleThread EXCEPT !.op = "upload_dataset", !.file = file, !.filename = filename,
                             !.todo = <<"create_session", "file_save", "read_file", "find_one",
                                        "attach", "os_remove", "respond">>]]
    /\ LocalStep

\* a POST /api/preprocessing/... arrives (preprocessing_routes.py lines
\* 53-241): get_session_data, the transformation, update_session_data,
\* add_preprocessing_step
ReceivePreprocessing(k, sid) ==
    /\ moduleLoaded
    /\ threads[k].op = "none"
    /\ threads' = [threads EXCEPT ![k] =
          [IdleThread EXCEPT !.op = "preprocessing_route", !.sid = sid,
                             !.todo = <<"load", "find_one", "update", "add_step">>]]
    /\ LocalStep

\* PUT /api/sessions/<session_id>/metadata arrives (dataset_routes.py lines
\* 263-282): update_session_metadata, get_session_metadata
ReceiveMetadata(k, sid, partial) ==
    /\ moduleLoaded
    /\ threads[k].op = "none"
    /\ threads' = [threads EXCEPT ![k] =
          [IdleThread EXCEPT !.op = "update_session_metadata_route", !.sid = sid,
                             !.partial = partial,
                             !.todo = <<"find_one", "merge", "respond">>]]
    /\ LocalStep

\* create_session() of upload_dataset: uuid4 draws an id no session has
CreateSession(k) ==
    /\ At(k, "create_session")
    /\ \E sid \in ({"uuid"} \X Workers) \ allocated :
          LET r == create_session(World, sid)
          IN  /\ Commit(r.w)
              /\ allocated' = allocated \cup {sid}
              /\ threads' = [threads EXCEPT ![k] =
                    [@ EXCEPT !.sid = sid, !.todo = Tail(threads[k].todo)]]
    /\ UNCHANGED <<upload_folder, twin_documents>>
    /\ ThreadEnvUnchanged

\* get_session(session_id) for an id that is not a sample id
\* (session_service.py lines 111-134); KeyError is answered 404
GetSession(k) ==
    /\ At(k, "get_session")
    /\ LET r == get_session(World, threads[k].sid)
       IN  /\ Commit(r.w)
           /\ threads' = [threads EXCEPT ![k] =
                 IF r.exc = "KeyError"
                 THEN [@ EXCEPT !.todo = <<>>, !.status = 404]
                 ELSE [@ EXCEPT !.todo = Tail(threads[k].todo)]]
    /\ UNCHANGED <<allocated, upload_folder, twin_documents>>
    /\ ThreadEnvUnchanged

\* handle_sample_session, lines 139-141: os.path.exists(session_dir), and
\* os.makedirs when the directory is new; then the snapshots and the metadata
\* are written, or the stored metadata is read
SampleExists(k) ==
    /\ At(k, "exists")
    /\ LET sid == threads[k].sid
       IN  IF sid \notin session_dirs
           THEN /\ session_dirs' = session_dirs \cup {sid}
                /\ threads' = [threads EXCEPT ![k] =
                      [@ EXCEPT !.df = SAMPLE_DATA, !.saving = SampleMetadata(sid),
                                !.todo = SnapshotSteps \o SaveSteps \o Tail(threads[k].todo)]]
           ELSE /\ UNCHANGED session_dirs
                /\ threads' = [threads EXCEPT ![k] =
                      [@ EXCEPT !.todo = <<"find_one", "sample_found">>
                                           \o Tail(threads[k].todo)]]
    /\ UNCHANGED <<IN_MEMORY_SESSIONS, sessions_collection, datasets_collection, pkl_files,
                   csv_files, allocated, upload_folder, twin_documents>>
    /\ ThreadEnvUnchanged

\* handle_sample_session, lines 183-204: metadata that is missing is written
SampleFound(k) ==
    /\ At(k, "sample_found")
    /\ threads' = [threads EXCEPT ![k] =
          IF Falsy(threads[k].found)
          THEN [@ EXCEPT !.saving = SampleMetadata(threads[k].sid),
                         !.todo = SaveSteps \o Tail(threads[k].todo)]
          ELSE [@ EXCEPT !.todo = Tail(threads[k].todo)]]
    /\ LocalStep

\* get_session_metadata of mongodb.py (lines 111-154): find_one with the
\* renewal, which writes the two dates only, or the look into the fallback
\* map; for a sample id without a document save_session_metadata is called
\* with the stub, and the stub is what the caller gets
FindOne(k) ==
    /\ At(k, "find_one")
    /\ LET sid == threads[k].sid
           g == get_mongo_session_metadata(sessions_collection, IN_MEMORY_SESSIONS, sid)
       IN  IF mongoUp /\ sid \notin DOMAIN sessions_collection /\ IsSample(sid)
           THEN /\ threads' = [threads EXCEPT ![k] =
                      [@ EXCEPT !.found = [md |-> SampleStubMetadata, none |-> FALSE],
                                !.saving = SampleStubMetadata,
                                !.todo = SaveSteps \o Tail(threads[k].todo)]]
                /\ UNCHANGED <<sessions_collection, IN_MEMORY_SESSIONS>>
           ELSE /\ threads' = [threads EXCEPT ![k] =
                      [@ EXCEPT !.found = [md |-> g.md, none |-> g.none],
                                !.todo = Tail(threads[k].todo)]]
                /\ sessions_collection' = g.coll
                /\ IN_MEMORY_SESSIONS' = g.mem
    /\ UNCHANGED <<datasets_collection, session_dirs, pkl_files, csv_files, allocated,
                   upload_folder, twin_documents>>
    /\ ThreadEnvUnchanged

\* save_session_metadata, lines 67-69: existing = find_one(...); when the
\* collection raises, the except branch (lines 97-109) ends the call
SaveFind(k) ==
    /\ At(k, "save_find")
    /\ IF mongoUp
       THEN /\ threads' = [threads EXCEPT ![k] =
                  [@ EXCEPT !.existing = threads[k].sid \in DOMAIN sessions_collection,
                            !.todo = Tail(threads[k].todo)]]
            /\ UNCHANGED IN_MEMORY_SESSIONS
       ELSE /\ threads' = [threads EXCEPT ![k] =
                  [@ EXCEPT !.todo = Tail(Tail(threads[k].todo))]]
            /\ IN_MEMORY_SESSIONS' =
                  save_session_metadata(sessions_collection, IN_MEMORY_SESSIONS,
                                        threads[k].sid, threads[k].saving).mem
    /\ UNCHANGED <<sessions_collection, datasets_collection, session_dirs, pkl_files,
                   csv_files, allocated, upload_folder, twin_documents>>
    /\ ThreadEnvUnchanged

\* save_session_metadata, lines 74-92: update_one if find_one had found a
\* document, and it changes nothing if the document is gone; insert_one
\* otherwise, which the unique index on session_id rejects if the id has a
\* document by now (the except branch then ends the call), and which adds a
\* second document if the index was not created
SaveWrite(k) ==
    /\ At(k, "save_write")
    /\ LET sid == threads[k].sid
           doc == NewSessionDoc(threads[k].saving)
           fallback == IF fallbackDefined
                       THEN Put(IN_MEMORY_SESSIONS, sid, doc)
                       ELSE IN_MEMORY_SESSIONS
       IN  IF ~mongoUp
           THEN /\ IN_MEMORY_SESSIONS' = fallback
                /\ UNCHANGED <<sessions_collection, twin_documents>>
           ELSE IF threads[k].existing
           THEN /\ sessions_collection' =
                      IF sid \in DOMAIN sessions_collection
                      THEN [sessions_collection EXCEPT ![sid] =
                              [@ EXCEPT !.metadata = threads[k].saving, !.updated_at = now,
                                        !.expires_at = now + SESSION_TTL_DAYS]]
                      ELSE sessions_collection
                /\ UNCHANGED <<IN_MEMORY_SESSIONS, twin_documents>>
           ELSE IF sid \notin DOMAIN sessions_collection
           THEN /\ sessions_collection' = Put(sessions_collection, sid, doc)
                /\ UNCHANGED <<IN_MEMORY_SESSIONS, twin_documents>>
           ELSE IF indexes_created
           THEN /\ IN_MEMORY_SESSIONS' = fallback
                /\ UNCHANGED <<sessions_collection, twin_documents>>
           ELSE /\ twin_documents' =
                      Append(twin_documents, [session_id |-> sid, document |-> doc])
                /\ UNCHANGED <<sessions_collection, IN_MEMORY_SESSIONS>>
    /\ threads' = [threads EXCEPT ![k] = [@ EXCEPT !.todo = Tail(threads[k].todo)]]
    /\ UNCHANGED <<datasets_collection, session_dirs, pkl_files, csv_files, allocated,
                   upload_folder>>
    /\ ThreadEnvUnchanged

\* add_session_data, lines 222-251: KeyError without metadata; otherwise the
\* snapshots, the merged metadata and the dataset document are written
Attach(k) ==
    /\ At(k, "attach")
    /\ threads' = [threads EXCEPT ![k] =
          IF Falsy(threads[k].found)
          THEN Raise(@)
          ELSE [@ EXCEPT !.df = threads[k].data,
                         !.saving = DictUpdate(threads[k].found.md,
                                               DictUpdate([filename |-> threads[k].filename],
                                                          FrameMetadata(threads[k].sid,
                                                                        threads[k].data))),
                         !.todo = SnapshotSteps \o SaveSteps \o <<"save_dataset">>
                                    \o Tail(threads[k].todo)]]
    /\ LocalStep

\* update_session_data, lines 353-380: ValueError without metadata; otherwise
\* the snapshots and the merged metadata are written
Update(k) ==
    /\ At(k, "update")
    /\ threads' = [threads EXCEPT ![k] =
          IF Falsy(threads[k].found)
          THEN Raise(@)
          ELSE [@ EXCEPT !.df = threads[k].data,
                         !.saving = DictUpdate(threads[k].found.md,
                                               DictUpdate(FrameMetadata(threads[k].sid,
                                                                        threads[k].data),
                                                          [updated_at |-> now])),
                         !.todo = SnapshotSteps \o SaveSteps \o Tail(threads[k].todo)]]
    /\ LocalStep

\* update_session_metadata, lines 392-402: ValueError without metadata;
\* otherwise metadata.update(new_metadata) and the save
Merge(k) ==
    /\ At(k, "merge")
    /\ threads' = [threads EXCEPT ![k] =
          IF Falsy(threads[k].found)
          THEN Raise(@)
          ELSE [@ EXCEPT !.saving = DictUpdate(DictUpdate(threads[k].found.md,
                                                          threads[k].partial),
                                               [updated_at |-> now]),
                         !.todo = SaveSteps \o Tail(threads[k].todo)]]
    /\ LocalStep

\* os.makedirs(session_dir) and open(df_path, 'wb'): the file exists and is
\* empty
OpenSnapshot(k) ==
    /\ At(k, "open")
    /\ session_dirs' = session_dirs \cup {threads[k].sid}
    /\ pkl_files' = Put(pkl_files, threads[k].sid, Damaged)
    /\ threads' = [threads EXCEPT ![k] = [@ EXCEPT !.todo = Tail(threads[k].todo)]]
    /\ UNCHANGED <<IN_MEMORY_SESSIONS, sessions_collection, datasets_collection, csv_files,
                   allocated, upload_folder, twin_documents>>
    /\ ThreadEnvUnchanged

\* pickle.dump(df, f) and the close of the file: the file holds the frame of
\* the thread that wrote last
DumpSnapshot(k) ==
    /\ At(k, "dump")
    /\ pkl_files' = Put(pkl_files, threads[k].sid, threads[k].df)
    /\ threads' = [threads EXCEPT ![k] =
          [@ EXCEPT !.dumped = TRUE, !.todo = Tail(threads[k].todo)]]
    /\ UNCHANGED <<IN_MEMORY_SESSIONS, sessions_collection, datasets_collection,
                   session_dirs, csv_files, allocated, upload_folder, twin_documents>>
    /\ ThreadEnvUnchanged

\* df.to_csv(csv_path, index=False)
WriteCsv(k) ==
    /\ At(k, "to_csv")
    /\ csv_files' = Put(csv_files, threads[k].sid, threads[k].df)
    /\ threads' = [threads EXCEPT ![k] = [@ EXCEPT !.todo = Tail(threads[k].todo)]]
    /\ UNCHANGED <<IN_MEMORY_SESSIONS, sessions_collection, datasets_collection,
                   session_dirs, pkl_files, allocated, upload_folder, twin_documents>>
    /\ ThreadEnvUnchanged

\* save_dataset(dataset_info) of add_session_data (lines 254-265)
SaveDataset(k) ==
    /\ At(k, "save_dataset")
    /\ datasets_collection' = save_dataset(datasets_collection, threads[k].sid,
                                           threads[k].filename, threads[k].df)
    /\ threads' = [threads EXCEPT ![k] = [@ EXCEPT !.todo = Tail(threads[k].todo)]]
    /\ UNCHANGED <<IN_MEMORY_SESSIONS, sessions_collection, session_dirs, pkl_files,
                   csv_files, allocated, upload_folder, twin_documents>>
    /\ ThreadEnvUnchanged

\* file.save(filepath): filepath is os.path.join(UPLOAD_FOLDER, filename),
\* the same path for every upload of a file of that name
FileSave(k) ==
    /\ At(k, "file_save")
    /\ upload_folder' = Put(upload_folder, threads[k].filename, threads[k].file)
    /\ threads' = [threads EXCEPT ![k] = [@ EXCEPT !.todo = Tail(threads[k].todo)]]
    /\ UNCHANGED <<IN_MEMORY_SESSIONS, sessions_collection, datasets_collection,
                   session_dirs, pkl_files, csv_files, allocated, twin_documents>>
    /\ ThreadEnvUnchanged

\* pd.read_csv(filepath): the frame of the file that is at the path now;
\* FileNotFoundError if there is none
ReadFile(k) ==
    /\ At(k, "read_file")
    /\ threads' = [threads EXCEPT ![k] =
          IF threads[k].filename \in DOMAIN upload_folder
          THEN [@ EXCEPT !.data = upload_folder[threads[k].filename],
                         !.todo = Tail(threads[k].todo)]
          ELSE Raise(@)]
    /\ LocalStep

\* os.remove(filepath) after add_session_data; FileNotFoundError if the file
\* is gone
OsRemove(k) ==
    /\ At(k, "os_remove")
    /\ IF threads[k].filename \in DOMAIN upload_folder
       THEN /\ upload_folder' = [f \in (DOMAIN upload_folder) \ {threads[k].filename} |->
                                    upload_folder[f]]
            /\ threads' = [threads EXCEPT ![k] = [@ EXCEPT !.todo = Tail(threads[k].todo)]]
       ELSE /\ UNCHANGED upload_folder
            /\ threads' = [threads EXCEPT ![k] = Raise(@)]
    /\ UNCHANGED <<IN_MEMORY_SESSIONS, sessions_collection, datasets_collection,
                   session_dirs, pkl_files, csv_files, allocated, twin_documents>>
    /\ ThreadEnvUnchanged

\* the except branch of the upload handlers: the temporary file is removed
\* if it exists, and the answer is 500
Cleanup(k) ==
    /\ At(k, "cleanup")
    /\ upload_folder' = [f \in (DOMAIN upload_folder) \ {threads[k].filename} |->
                            upload_folder[f]]
    /\ threads' = [threads EXCEPT ![k] = [@ EXCEPT !.todo = <<>>, !.status = 500]]
    /\ UNCHANGED <<IN_MEMORY_SESSIONS, sessions_collection, datasets_collection,
                   session_dirs, pkl_files, csv_files, allocated, twin_documents>>
    /\ ThreadEnvUnchanged

\* get_session_data(session_id) of a preprocessing route and the
\* transformation of the frame; an exception is answered 500
Load(k) ==
    /\ At(k, "load")
    /\ LET r == get_session_data(World, threads[k].sid)
       IN  /\ Commit(r.w)
           /\ IF r.exc # "none"
              THEN threads' = [threads EXCEPT ![k] = Raise(@)]
              ELSE \E result_df \in ProcessedFrames(r.val) :
                      threads' = [threads EXCEPT ![k] =
                         [@ EXCEPT !.data = result_df, !.todo = Tail(threads[k].todo)]]
    /\ UNCHANGED <<allocated, upload_folder, twin_documents>>
    /\ ThreadEnvUnchanged

\* add_preprocessing_step of a preprocessing route, and the answer
AddStep(k) ==
    /\ At(k, "add_step")
    /\ Commit(add_preprocessing_step(World, threads[k].sid, "missing_values"))
    /\ threads' = [threads EXCEPT ![k] = [@ EXCEPT !.todo = <<>>, !.status = 200]]
    /\ UNCHANGED <<allocated, upload_folder, twin_documents>>
    /\ ThreadEnvUnchanged

\* get_session_metadata(session_id) of the service and the answer of the
\* handler; ValueError is answered 500
Respond(k) ==
    /\ At(k, "respond")
    /\ LET r == get_session_metadata(World, threads[k].sid)
       IN  /\ Commit(r.w)
           /\ threads' = [threads EXCEPT ![k] =
                 IF r.exc # "none"
                 THEN Raise(@)
                 ELSE [@ EXCEPT !.todo = <<>>, !.status = 200]]
    /\ UNCHANGED <<allocated, upload_folder, twin_documents>>
    /\ ThreadEnvUnchanged

\* the steps of the service functions, which every request can reach
ServiceSteps(k) ==
    \/ FindOne(k)
    \/ SaveFind(k)
    \/ SaveWrite(k)
    \/ OpenSnapshot(k)
    \/ DumpSnapshot(k)
    \/ WriteCsv(k)
    \/ Respond(k)

\* the steps of an upload
UploadSteps(k) ==
    \/ FileSave(k)
    \/ ReadFile(k)
    \/ Attach(k)
    \/ SaveDataset(k)
    \/ OsRemove(k)
    \/ Cleanup(k)

\* no request is in flight
Quiet == \A k \in Workers : threads[k].op = "none"

-----------------------------------------------------------------------------
(* Two worker threads that write the snapshots and the metadata of the same *)
(* sessions: uploads into a session and preprocessing requests, started at  *)
(* any time, after requests that were served one at a time.                 *)

NextWriters ==
    \/ Quiet /\ create_new_session
    \/ Quiet /\ \E sid \in SessionIds, df \in Uploads : upload_file_to_session(sid, df, "data.csv")
    \/ MongoRecovers
    \/ \E k \in Workers, sid \in SessionIds, file \in UploadedFiles :
          ReceiveUpload(k, sid, file, "data.csv")
    \/ \E k \in Workers, sid \in SessionIds : ReceivePreprocessing(k, sid)
    \/ \E k \in Workers : GetSession(k)
    \/ \E k \in Workers : SampleExists(k)
    \/ \E k \in Workers : SampleFound(k)
    \/ \E k \in Workers : Load(k)
    \/ \E k \in Workers : Update(k)
    \/ \E k \in Workers : AddStep(k)
    \/ \E k \in Workers : ServiceSteps(k)
    \/ \E k \in Workers : UploadSteps(k)

SpecWriters == Init /\ [][NextWriters]_vars

\* C21: while an upload into a session or update_session_data runs, the
\* stored metadata says has_data = true only if a binary snapshot of the
\* session has been written (at the least, the file exists); and a snapshot
\* file is opened for writing only for a session that has a record.
C21_SnapshotBeforeHasData ==
    /\ [](\A sid \in SessionIds :
             DictGet(StoredMetadata(sid), "has_data", FALSE) = TRUE
                => sid \in DOMAIN pkl_files)
    /\ [][\A k \in Workers :
             OpenSnapshot(k) => threads[k].sid \in DOMAIN sessions_collection]_vars

\* C26: the collection of sessions never holds two documents with the same
\* session_id, also when two save_session_metadata calls for a new id
\* interleave their find_one and insert_one.
C26_OneRecordPerId ==
    \A i \in DOMAIN twin_documents :
        twin_documents[i].session_id \notin DOMAIN sessions_collection

\* thread k has returned from add_session_data or update_session_data for
\* `sid` after having written the snapshot, and the handler has not yet gone
\* on to write anything else to the session
WriterReturned(k, sid) ==
    /\ threads[k].sid = sid
    /\ threads[k].dumped
    /\ \/ threads[k].op = "upload_file_to_session" /\ threads[k].status = 200
       \/ threads[k].op = "preprocessing_route" /\ threads[k].todo = <<"add_step">>

\* C28: when two threads have written the same session (one that clients
\* created) concurrently and both writers have returned, the stored rows,
\* columns and column_names are those of the frame that data.pkl holds.
C28_MetadataDescribesSnapshot ==
    \A sid \in StoreIds :
        (\A k \in Workers : WriterReturned(k, sid))
           => /\ sid \in DOMAIN pkl_files
              /\ Loadable(pkl_files[sid])
              /\ DictGet(StoredMetadata(sid), "rows", -1) = Len(pkl_files[sid].rows)
              /\ DictGet(StoredMetadata(sid), "columns", -1) = Len(pkl_files[sid].columns)
              /\ DictGet(StoredMetadata(sid), "column_names", <<>>) = pkl_files[sid].columns

-----------------------------------------------------------------------------
(* Two worker threads that serve PUT /api/sessions/<session_id>/metadata    *)
(* for sessions created before, while MongoDB comes and goes.               *)

NextMerge ==
    \/ Quiet /\ create_new_session
    \/ MongoFails
    \/ MongoRecovers
    \/ \E k \in Workers, sid \in SessionIds, partial \in ClientPartials :
          ReceiveMetadata(k, sid, partial)
    \/ \E k \in Workers : FindOne(k)
    \/ \E k \in Workers : Merge(k)
    \/ \E k \in Workers : SaveFind(k)
    \/ \E k \in Workers : SaveWrite(k)
    \/ \E k \in Workers : Respond(k)

SpecMerge == Init /\ [][NextMerge]_vars

-----------------------------------------------------------------------------
(* Two worker threads that serve POST /api/dataset/upload: each creates a   *)
(* session of its own and stores the uploaded file in it.  The two files    *)
(* can have the same name.                                                  *)

NextUpload ==
    \/ \E k \in Workers, file \in UploadedFiles, filename \in UploadNames :
          ReceiveDataset(k, file, filename)
    \/ \E k \in Workers : CreateSession(k)
    \/ \E k \in Workers : ServiceSteps(k)
    \/ \E k \in Workers : UploadSteps(k)

SpecUpload == Init /\ [][NextUpload]_vars

\* C29: an upload that is answered 200 has stored, in the session it created,
\* the frame parsed from its own file, whatever another upload does at the
\* same time.
C29_OwnFileStored ==
    \A k \in Workers :
        (threads[k].op = "upload_dataset" /\ threads[k].status = 200)
           => /\ threads[k].sid \in DOMAIN pkl_files
              /\ pkl_files[threads[k].sid] = threads[k].file

====
